---- MODULE Spec2Model ----
(***************************************************************************)
(* Dot.js core: virtual nodes (h), the renderer (render), the listener     *)
(* registry (activeEventListeners, cleanupEventListeners), the mount /     *)
(* rerender cycle, the call-order state store (useState) and the router.   *)
(* The model follows the richest revision of the core (the one with the    *)
(* state store and the listener registry).                                 *)
(*                                                                         *)
(* Every JavaScript function is an operator from its arguments and the     *)
(* world `w` (a record of every piece of mutable state: the module-level   *)
(* variables of the core and the host document) to the world after the     *)
(* call; a function that returns a value yields [w |-> world, ret |-> v].  *)
(* A thrown exception is the field w.err # NoError; every statement after  *)
(* a throw is skipped, as in the host language.                            *)
(***************************************************************************)
EXTENDS Integers, Sequences, FiniteSets, TLC

(***************************************************************************)
(* Bounds of the model.                                                    *)
(***************************************************************************)
\* render passes plus direct render() calls in one run
MaxPasses == 3
\* entries on the host's session history
MaxHistory == 2
\* clicks on the counter's increment button in the counter scenario
MaxClicks == 50
\* frames the host's call stack holds before a call throws a RangeError
StackLimit == 12
\* the value at which the self-adjusting component stops calling its setter
SettleLimit == 1
\* children the containers hold before no further render into them is tried
MaxChildren == 3

(***************************************************************************)
(* JavaScript values.                                                      *)
(***************************************************************************)
Undefined == [t |-> "undefined"]
Null == [t |-> "null"]
Num(n) == [t |-> "number", n |-> n]
Str(s) == [t |-> "string", s |-> s]
Bool(b) == [t |-> "boolean", b |-> b]
Arr(items) == [t |-> "array", items |-> items]
Obj(entries) == [t |-> "object", entries |-> entries]
\* not-a-number: typeof "number", falsy
NaN == [t |-> "nan"]
\* a function value: a named function of the application. A closure created
\* while a render source runs is a new function object on every pass: `born`
\* is the pass that created it (0 for a function declared at module level)
\* and `slot` the state slot its getter/setter pair is bound to (-1 if none)
Fn(name, slot, born) == [t |-> "function", fn |-> name, slot |-> slot, born |-> born]
Func(name) == Fn(name, -1, 0)
\* a plain object; its properties are not read by the core
Style == [t |-> "object", entries |-> <<>>]

\* typeof v
TypeOf(v) ==
    CASE v.t = "undefined" -> "undefined"
      [] v.t = "number" -> "number"
      [] v.t = "nan" -> "number"
      [] v.t = "string" -> "string"
      [] v.t = "boolean" -> "boolean"
      [] v.t = "function" -> "function"
      [] OTHER -> "object"

\* the truthiness of v, as `!v`, `v || d` and `if (v)` see it
Truthy(v) ==
    CASE v.t = "undefined" -> FALSE
      [] v.t = "null" -> FALSE
      [] v.t = "number" -> v.n # 0
      [] v.t = "nan" -> FALSE
      [] v.t = "string" -> v.s # ""
      [] v.t = "boolean" -> v.b
      [] OTHER -> TRUE

RECURSIVE JoinItems(_, _)
\* String(v): the string form of a value, as a text node, an attribute value
\* or a template literal receives it
JSString(v) ==
    CASE v.t = "undefined" -> "undefined"
      [] v.t = "null" -> "null"
      [] v.t = "number" -> ToString(v.n)
      [] v.t = "nan" -> "NaN"
      [] v.t = "string" -> v.s
      [] v.t = "boolean" -> (IF v.b THEN "true" ELSE "false")
      [] v.t = "array" -> JoinItems(v.items, 1)
      [] v.t = "function" -> "function " \o v.fn \o "() { [code] }"
      [] OTHER -> "[object Object]"
\* Array.prototype.join(","): null and undefined items give the empty string
JoinItems(items, i) ==
    IF i > Len(items) THEN ""
    ELSE (IF items[i].t \in {"undefined", "null"} THEN "" ELSE JSString(items[i]))
         \o (IF i < Len(items) THEN "," ELSE "")
         \o JoinItems(items, i + 1)

\* v + k for a number k: numeric addition, or string concatenation when v
\* is (or converts to) a string
JSAdd(v, k) ==
    CASE v.t = "number" -> Num(v.n + k)
      [] v.t = "null" -> Num(k)
      [] v.t = "boolean" -> Num((IF v.b THEN 1 ELSE 0) + k)
      [] v.t \in {"undefined", "nan"} -> NaN
      [] OTHER -> Str(JSString(v) \o ToString(k))

(***************************************************************************)
(* Property keys are sequences of characters, so that startsWith,          *)
(* toLowerCase and slice are computed on them.                             *)
(***************************************************************************)
UpperToLower ==
    [c \in {"A", "B", "C", "D", "E", "I", "K", "L", "M", "N", "O", "P", "S", "T"} |->
        CASE c = "A" -> "a" [] c = "B" -> "b" [] c = "C" -> "c" [] c = "D" -> "d"
          [] c = "E" -> "e" [] c = "I" -> "i" [] c = "K" -> "k" [] c = "L" -> "l"
          [] c = "M" -> "m" [] c = "N" -> "n" [] c = "O" -> "o" [] c = "P" -> "p"
          [] c = "S" -> "s" [] c = "T" -> "t"]
\* key.toLowerCase()
ToLowerCase(key) ==
    [i \in 1..Len(key) |-> IF key[i] \in DOMAIN UpperToLower THEN UpperToLower[key[i]] ELSE key[i]]
\* key.startsWith('on')
StartsWithOn(key) == Len(key) >= 2 /\ key[1] = "o" /\ key[2] = "n"
\* key.slice(2)
Slice2(key) == SubSeq(key, 3, Len(key))

K_class == <<"c", "l", "a", "s", "s">>
K_className == <<"c", "l", "a", "s", "s", "N", "a", "m", "e">>
K_onClick == <<"o", "n", "C", "l", "i", "c", "k">>
K_OnInput == <<"O", "n", "I", "n", "p", "u", "t">>
K_onclick == <<"o", "n", "c", "l", "i", "c", "k">>
K_onInput == <<"o", "n", "I", "n", "p", "u", "t">>
K_onKeyPress == <<"o", "n", "K", "e", "y", "P", "r", "e", "s", "s">>
K_onMouseEnter == <<"o", "n", "M", "o", "u", "s", "e", "E", "n", "t", "e", "r">>
K_value == <<"v", "a", "l", "u", "e">>
K_type == <<"t", "y", "p", "e">>
K_placeholder == <<"p", "l", "a", "c", "e", "h", "o", "l", "d", "e", "r">>
K_style == <<"s", "t", "y", "l", "e">>
K_id == <<"i", "d">>
K_disabled == <<"d", "i", "s", "a", "b", "l", "e", "d">>

(***************************************************************************)
(* Virtual nodes.                                                          *)
(***************************************************************************)
NoError == ""
\* the result of a call that threw
Throw(msg) == [t |-> "throw", msg |-> msg]

\* a variant of h without input validation, as in the first revision of the core
hUnchecked(type, props, children) ==
    [t |-> "vnode", type |-> type,
     props |-> (IF Truthy(props) THEN props ELSE Obj(<<>>)),
     children |-> children]

\* a variant of h that stores the props argument as it came
hKeepProps(type, props, children) ==
    IF ~Truthy(type) \/ (TypeOf(type) # "string" /\ TypeOf(type) # "function")
    THEN Throw("h(): type must be a non-empty string or function")
    ELSE IF props.t \notin {"undefined", "null"} /\ TypeOf(props) # "object"
    THEN Throw("h(): props must be an object or null")
    ELSE [t |-> "vnode", type |-> type, props |-> props, children |-> children]

\* h(type, props, ...children): props = Undefined stands for an omitted
\* argument (the default parameter value {} applies)
h(type, props, children) ==
    LET p == IF props.t = "undefined" THEN Obj(<<>>) ELSE props IN
    IF ~Truthy(type) \/ (TypeOf(type) # "string" /\ TypeOf(type) # "function")
    THEN Throw("h(): type must be a non-empty string or function")
    ELSE IF p.t # "null" /\ TypeOf(p) # "object"
    THEN Throw("h(): props must be an object or null")
    ELSE [t |-> "vnode", type |-> type,
          props |-> (IF Truthy(p) THEN p ELSE Obj(<<>>)),
          children |-> children]

\* h with a tag name, a list of <<key, value>> props and children
El(tag, entries, children) == h(Str(tag), Obj(entries), children)

(***************************************************************************)
(* The state: the core's module-level variables and the host document.     *)
(***************************************************************************)
VARIABLES
    nodes,                  \* the host's live real nodes, by identity
    activeEventListeners,   \* the listener registry: node -> list of {eventName, handler}
    currentRenderFunction,  \* the active render source, or Null
    currentContainer,       \* the active container (a node), or NoNode
    stateStore,             \* the state slots, slot k at position k + 1
    currentStateIndex,      \* the call-order cursor
    routes,                 \* the route table: path -> component
    currentRoute,           \* the current path
    history,                \* the host's session history (paths) ...
    historyIndex,           \* ... and the position of the current entry in it
    handles,                \* the slots whose getter/setter pair the application holds
    globalCount,            \* the slot of the example app's module-level pair, or NoSlot
    passes,                 \* how many times a render pass resolved its render source
    lastCall,               \* the last call of an entry point: name, arguments, outcome
    callStack               \* the frames of the call in progress, the running one last

vars == <<nodes, activeEventListeners, currentRenderFunction, currentContainer,
          stateStore, currentStateIndex, routes, currentRoute, history,
          historyIndex, handles, globalCount, passes, lastCall, callStack>>

\* The identity of a real node is <<p, k>>: the k-th node created while the
\* pass counter was p. The elements of the host page were not created by the
\* core; a node that has left the document is unreachable (the core keeps no
\* reference to it) and is dropped from `nodes` when the call returns.
NoNode == <<0, 0>>
NoSlot == -1
\* the two elements of the host page that applications mount into
Container1 == <<0, 1>>
Container2 == <<0, 2>>
Containers == {Container1, Container2}

TextTag == "#text"
\* a real node: an element (tag, attributes, attached listeners, children)
\* or a text node (tag = TextTag, data)
RealNode(tag, data) ==
    [tag |-> tag, data |-> data, attrs |-> <<>>, listeners |-> <<>>, children |-> <<>>]

\* a render target is active in world w
TargetActiveIn(w) == Truthy(w.currentRenderFunction) /\ w.currentContainer # NoNode

\* the world of the current state
World ==
    [nodes |-> nodes, activeEventListeners |-> activeEventListeners,
     currentRenderFunction |-> currentRenderFunction,
     currentContainer |-> currentContainer,
     stateStore |-> stateStore, currentStateIndex |-> currentStateIndex,
     routes |-> routes, currentRoute |-> currentRoute,
     history |-> history, historyIndex |-> historyIndex,
     handles |-> handles, globalCount |-> globalCount, passes |-> passes,
     err |-> NoError]

Raise(w, msg) == [w EXCEPT !.err = msg]
Ok(w) == w.err = NoError

(***************************************************************************)
(* The host document's operations.                                         *)
(***************************************************************************)
\* whether String(type) is a name document.createElement accepts: a name
\* starts with a letter and holds no space, bracket or parenthesis
ValidElementName(type) ==
    CASE type.t = "string" -> type.s # ""
      [] type.t \in {"undefined", "null", "boolean"} -> TRUE
      [] OTHER -> FALSE

\* the identity of the next node the host creates
FreshNode(w) ==
    LET serials == {n[2] : n \in {m \in DOMAIN w.nodes : m[1] = w.passes}}
    IN <<w.passes,
         IF serials = {} THEN 1
         ELSE 1 + CHOOSE k \in serials : \A j \in serials : j <= k>>

\* document.createTextNode(data)
createTextNode(data, w) ==
    LET id == FreshNode(w)
    IN [w |-> [w EXCEPT !.nodes = @ @@ (id :> RealNode(TextTag, JSString(data)))],
        ret |-> id]

\* document.createElement(type)
createElement(type, w) ==
    IF ~ValidElementName(type)
    THEN [w |-> Raise(w, "InvalidCharacterError"), ret |-> NoNode]
    ELSE LET id == FreshNode(w)
         IN [w |-> [w EXCEPT !.nodes = @ @@ (id :> RealNode(JSString(type), ""))],
             ret |-> id]

\* a variant of appendChild that puts the child in the place of the children
appendChildReplacing(parent, child, w) ==
    [w EXCEPT !.nodes[parent].children = <<child>>]

\* parent.appendChild(child)
appendChild(parent, child, w) ==
    [w EXCEPT !.nodes[parent].children = Append(@, child)]

\* el.setAttribute(name, value): the name is lower-cased, the value becomes
\* its string form, an attribute of that name is replaced
setAttribute(el, name, value, w) ==
    LET n == ToLowerCase(name)
        old == w.nodes[el].attrs
        kept == SelectSeq(old, LAMBDA a : a[1] # n)
    IN [w EXCEPT !.nodes[el].attrs = Append(kept, <<n, JSString(value)>>)]

\* el.addEventListener(eventName, handler): a listener already attached with
\* the same event name and callback is not attached twice
addEventListener(el, eventName, handler, w) ==
    IF \E i \in 1..Len(w.nodes[el].listeners) :
          w.nodes[el].listeners[i] = <<eventName, handler>>
    THEN w
    ELSE [w EXCEPT !.nodes[el].listeners = Append(@, <<eventName, handler>>)]

\* el.removeEventListener(eventName, handler)
removeEventListener(el, eventName, handler, w) ==
    [w EXCEPT !.nodes[el].listeners =
        SelectSeq(@, LAMBDA l : l # <<eventName, handler>>)]

\* el.innerHTML = '': the children leave the document
clearInnerHTML(el, w) == [w EXCEPT !.nodes[el].children = <<>>]

\* el.children: the child elements (text nodes are not among them)
ElementChildren(el, w) ==
    SelectSeq(w.nodes[el].children, LAMBDA c : w.nodes[c].tag # TextTag)

(***************************************************************************)
(* The listener registry.                                                  *)
(***************************************************************************)
\* activeEventListeners.has(el)
HasListeners(el, w) == el \in DOMAIN w.activeEventListeners

\* activeEventListeners.delete(el)
DeleteListeners(el, w) ==
    [w EXCEPT !.activeEventListeners =
        [n \in (DOMAIN @) \ {el} |-> @[n]]]

\* the tracking of one attached listener: the node's list is created on
\* first use and {eventName, handler} is pushed onto it
TrackListener(el, eventName, handler, w) ==
    LET reg == w.activeEventListeners
        old == IF el \in DOMAIN reg THEN reg[el] ELSE <<>>
    IN [w EXCEPT !.activeEventListeners =
           [n \in (DOMAIN reg) \cup {el} |->
               IF n = el THEN Append(old, [eventName |-> eventName, handler |-> handler])
               ELSE reg[n]]]

RECURSIVE DetachAll(_, _, _, _)
\* listeners.forEach(({eventName, handler}) => element.removeEventListener(...))
DetachAll(element, listeners, i, w) ==
    IF i > Len(listeners) THEN w
    ELSE DetachAll(element, listeners, i + 1,
                   removeEventListener(element, listeners[i].eventName,
                                       listeners[i].handler, w))

RECURSIVE cleanupEventListeners(_, _)
RECURSIVE CleanupChildren(_, _, _)
\* the first half of cleanupEventListeners: the element's own listeners
CleanupOwn(element, w) ==
    IF HasListeners(element, w)
    THEN DeleteListeners(element,
             DetachAll(element, w.activeEventListeners[element], 1, w))
    ELSE w
\* Array.from(element.children).forEach(child => cleanupEventListeners(child))
CleanupChildren(children, i, w) ==
    IF i > Len(children) THEN w
    ELSE CleanupChildren(children, i + 1, cleanupEventListeners(children[i], w))
\* the second half: the child elements, recursively
CleanupSubtree(element, w) == CleanupChildren(ElementChildren(element, w), 1, w)
\* a variant of cleanupEventListeners that does not visit the children
cleanupOwnOnly(element, w) == CleanupOwn(element, w)

\* cleanupEventListeners(element)
cleanupEventListeners(element, w) == CleanupSubtree(element, CleanupOwn(element, w))

(***************************************************************************)
(* The renderer.                                                           *)
(***************************************************************************)
RECURSIVE FlatDeep(_, _)
\* a variant of flat() that flattens arrays at every depth
FlatDeep(children, i) ==
    IF i > Len(children) THEN <<>>
    ELSE (IF children[i].t = "array" THEN FlatDeep(children[i].items, 1)
          ELSE <<children[i]>>)
         \o FlatDeep(children, i + 1)

RECURSIVE Flat(_, _)
\* children.flat(): array entries are replaced by their items, one level deep
Flat(children, i) ==
    IF i > Len(children) THEN <<>>
    ELSE (IF children[i].t = "array" THEN children[i].items ELSE <<children[i]>>)
         \o Flat(children, i + 1)

\* a variant of the props loop that matches the prefix in any letter case
RenderPropAnyCase(el, key, value, w) ==
    IF StartsWithOn(ToLowerCase(key)) /\ TypeOf(value) = "function"
    THEN TrackListener(el, Slice2(ToLowerCase(key)), value,
                       addEventListener(el, Slice2(ToLowerCase(key)), value, w))
    ELSE setAttribute(el, key, value, w)

\* the props loop of render, for one key of vnode.props
RenderProp(el, key, value, w) ==
    IF StartsWithOn(key) /\ TypeOf(value) = "function"
    THEN TrackListener(el, Slice2(ToLowerCase(key)), value,
                       addEventListener(el, Slice2(ToLowerCase(key)), value, w))
    ELSE setAttribute(el, key, value, w)

RECURSIVE RenderProps(_, _, _, _)
\* for (const key in vnode.props || {}) ...
RenderProps(el, entries, i, w) ==
    IF i > Len(entries) THEN w
    ELSE RenderProps(el, entries, i + 1,
                     RenderProp(el, entries[i][1], entries[i][2], w))

\* vnode.props || {} as the list of its entries; a value without the
\* property (a boolean, an array) gives the empty list
PropsOf(vnode) ==
    IF vnode.t = "vnode" /\ vnode.props.t = "object" THEN vnode.props.entries ELSE <<>>

\* container.appendChild(created); return created
AppendCreated(container, created) ==
    [w |-> appendChild(container, created.ret, created.w), ret |-> created.ret]

\* the end of render: container.appendChild(el); return el
FinishElement(container, el, w) ==
    IF ~Ok(w) THEN [w |-> w, ret |-> NoNode]
    ELSE [w |-> appendChild(container, el, w), ret |-> el]

RECURSIVE render(_, _, _)
RECURSIVE RenderChildren(_, _, _, _)
\* vnode.children.flat().forEach(child => render(child, el))
RenderChildren(children, i, el, w) ==
    IF i > Len(children) \/ ~Ok(w) THEN w
    ELSE RenderChildren(children, i + 1, el, render(children[i], el, w).w)
\* the children step of render; vnode.children of a value that is no
\* virtual node is undefined, and .flat() of undefined throws
RenderChildrenOf(vnode, el, w) ==
    IF vnode.t # "vnode" THEN Raise(w, "TypeError")
    ELSE RenderChildren(Flat(vnode.children, 1), 1, el, w)
\* render, once the element `created` exists: props, children, append
RenderElement(vnode, container, created) ==
    IF ~Ok(created.w) THEN created
    ELSE FinishElement(container, created.ret,
             RenderChildrenOf(vnode, created.ret,
                 RenderProps(created.ret, PropsOf(vnode), 1, created.w)))
\* render(vnode, container)
render(vnode, container, w) ==
    IF ~Ok(w) THEN [w |-> w, ret |-> NoNode]
    ELSE IF TypeOf(vnode) = "string" \/ TypeOf(vnode) = "number"
    THEN AppendCreated(container, createTextNode(vnode, w))
    ELSE IF vnode.t \in {"undefined", "null"}
    THEN \* vnode.type of undefined or null
         [w |-> Raise(w, "TypeError"), ret |-> NoNode]
    ELSE RenderElement(vnode, container,
             createElement(IF vnode.t = "vnode" THEN vnode.type ELSE Undefined, w))

(***************************************************************************)
(* The state store.                                                        *)
(***************************************************************************)
\* stateStore[k]: a position past the end reads undefined
StoreGet(store, k) ==
    IF k >= 0 /\ k + 1 <= Len(store) THEN store[k + 1] ELSE Undefined

\* stateStore[k] = v: a position past the end grows the array, the positions
\* skipped read undefined
StoreSet(store, k, v) ==
    IF k + 1 <= Len(store) THEN [store EXCEPT ![k + 1] = v]
    ELSE [i \in 1..(k + 1) |-> IF i <= Len(store) THEN store[i]
                                ELSE IF i = k + 1 THEN v ELSE Undefined]

\* a variant of useState that keeps its value in a variable of the call (as
\* the first revision of the core does): every call starts from initialValue
useStateLocal(initialValue, w) ==
    [w |-> [w EXCEPT !.currentStateIndex = @ + 1,
                     !.stateStore = StoreSet(@, w.currentStateIndex, initialValue),
                     !.handles = @ \cup {w.currentStateIndex}],
     ret |-> w.currentStateIndex]

\* a variant of useState that does not advance the cursor: every call of a
\* pass is bound to the same slot
useStateShared(initialValue, w) ==
    [w |-> [w EXCEPT !.stateStore =
                         IF StoreGet(@, w.currentStateIndex) = Undefined
                         THEN StoreSet(@, w.currentStateIndex, initialValue)
                         ELSE @,
                     !.handles = @ \cup {w.currentStateIndex}],
     ret |-> w.currentStateIndex]

\* useState(initialValue): returns the pair [getValue, setValue] bound to
\* stateIndex; the pair is modelled by the slot it is bound to
useState(initialValue, w) ==
    [w |-> [w EXCEPT !.currentStateIndex = @ + 1,
                     !.stateStore =
                         IF StoreGet(@, w.currentStateIndex) = Undefined
                         THEN StoreSet(@, w.currentStateIndex, initialValue)
                         ELSE @,
                     !.handles = @ \cup {w.currentStateIndex}],
     ret |-> w.currentStateIndex]

\* getValue() of the pair bound to stateIndex
getValue(stateIndex, w) == StoreGet(w.stateStore, stateIndex)

(***************************************************************************)
(* Render sources: the component functions of the example applications.    *)
(* A component is called with the world and returns the virtual node it    *)
(* built; the closures it creates are born in the running pass.            *)
(***************************************************************************)
Text(s) == Str(s)

\* what Counter returns, given the result u of its useState call
CounterView(u) ==
    [w |-> u.w,
     ret |-> El("div", << <<K_style, Style>> >>, <<
               El("h1", <<>>, <<Text("Counter App")>>),
               El("p", << <<K_style, Style>> >>,
                  <<Text("Count: " \o JSString(getValue(u.ret, u.w)))>>),
               El("div", <<>>, <<
                  El("button", << <<K_onClick, Fn("decrement", u.ret, u.w.passes)>> >>,
                     <<Text("-")>>),
                  El("button", << <<K_onClick, Fn("reset", u.ret, u.w.passes)>>,
                                  <<K_style, Style>> >>, <<Text("Reset")>>),
                  El("button", << <<K_onClick, Fn("increment", u.ret, u.w.passes)>> >>,
                     <<Text("+")>>)
               >>)
            >>)]
\* function Counter() of the documentation: one useState(0) in its body
Counter(w) == CounterView(useState(Num(0), w))

RECURSIVE TodoItems(_, _, _, _)
\* todos().map(todo => TodoItem({ todo })); a todo is modelled by its text:
\* no todo of the model is completed
TodoItems(todos, i, slot, born) ==
    IF i > Len(todos) THEN <<>>
    ELSE << El("div", << <<K_className, Str("todo-item ")>> >>, <<
               El("button", << <<K_className, Str("complete-btn")>>,
                               <<K_onClick, Fn("toggleTodo", slot, born)>> >>, <<Text("o")>>),
               El("span", << <<K_className, Str("todo-text")>> >>, <<todos[i]>>),
               El("button", << <<K_className, Str("delete-btn")>>,
                               <<K_onClick, Fn("deleteTodo", slot, born)>> >>, <<Text("x")>>)
            >>) >> \o TodoItems(todos, i + 1, slot, born)

\* what TodoApp returns, given the slot of todos and the result u2 of the
\* second useState call. todos().map throws a TypeError when todos() is no array
TodoAppView(todosSlot, u2) ==
    IF getValue(todosSlot, u2.w).t # "array"
    THEN [w |-> Raise(u2.w, "TypeError"), ret |-> Undefined]
    ELSE [w |-> u2.w,
          ret |-> El("div", << <<K_className, Str("todo-app")>> >>, <<
              El("h1", <<>>, <<Text("Todo App - Dot.js Framework")>>),
              El("p", <<>>, <<Text("A React-like todo app showcasing proper state management and component composition")>>),
              El("div", << <<K_className, Str("todo-input")>> >>, <<
                 El("input", << <<K_type, Str("text")>>,
                                <<K_placeholder, Str("Add a new todo...")>>,
                                <<K_value, getValue(u2.ret, u2.w)>>,
                                <<K_onInput, Fn("setNewTodo", u2.ret, u2.w.passes)>>,
                                <<K_onKeyPress, Fn("handleKeyPress", u2.ret, u2.w.passes)>> >>,
                    <<>>),
                 El("button", << <<K_onClick, Fn("addTodo", u2.ret, u2.w.passes)>> >>,
                    <<Text("Add Todo")>>) >>),
              h(Str("div"), Obj(<< <<K_className, Str("todo-list")>> >>),
                TodoItems(getValue(todosSlot, u2.w).items, 1, todosSlot, u2.w.passes)),
              El("div", << <<K_className, Str("stats")>> >>, <<
                 El("p", <<>>, <<Text("Total todos: "
                        \o ToString(Len(getValue(todosSlot, u2.w).items)))>>),
                 El("p", <<>>, <<Text("Completed: 0")>>),
                 El("p", <<>>, <<Text("Remaining: "
                        \o ToString(Len(getValue(todosSlot, u2.w).items)))>>) >>)
          >>)]
\* TodoApp after its first useState call
TodoAppSecond(u1) == TodoAppView(u1.ret, useState(Str(""), u1.w))
\* function TodoApp(): two useState calls, in the same order on every pass
TodoApp(w) == TodoAppSecond(useState(Arr(<<>>), w))

\* what Item returns, given the result u of its useState call
ItemView(u) ==
    [w |-> u.w,
     ret |-> El("li", << <<K_onClick, Fn("increment", u.ret, u.w.passes)>> >>,
                <<getValue(u.ret, u.w)>>)]
\* a list item that keeps a state of its own: function Item() ...
Item(w) == ItemView(useState(Num(0), w))
\* ... and the list that invokes it twice in one pass, passing the items as
\* one array child
ItemListView(i1, i2) ==
    [w |-> i2.w, ret |-> El("ul", <<>>, <<Arr(<<i1.ret, i2.ret>>)>>)]
ItemListSecond(i1) == ItemListView(i1, Item(i1.w))
ItemList(w) == ItemListSecond(Item(w))

\* the example virtual node of the core's header comment, mounted as is
ExampleVnode ==
    El("div", << <<K_className, Str("container")>>, <<K_id, Str("main")>>,
                 <<K_onClick, Func("alertClicked")>>, <<K_disabled, Bool(TRUE)>> >>, <<
        Text("Hello World"),
        El("button", << <<K_className, Str("btn")>>,
                        <<K_onMouseEnter, Func("logHover")>> >>, <<Text("Click me")>>)
    >>)

(***************************************************************************)
(* The router and the routed example application.                          *)
(***************************************************************************)
\* the characters of the path strings of the model
Chars(s) ==
    CASE s = "" -> <<>>
      [] s = "/" -> <<"/">>
      [] s = "/about" -> <<"/", "a", "b", "o", "u", "t">>
      [] s = "/missing" -> <<"/", "m", "i", "s", "s", "i", "n", "g">>
      [] s = "/contact" -> <<"/", "c", "o", "n", "t", "a", "c", "t">>
      [] s = "about" -> <<"a", "b", "o", "u", "t">>
\* path.startsWith('/')
StartsWithSlash(s) == Len(Chars(s)) >= 1 /\ Chars(s)[1] = "/"

\* function Counter() of the routed example: it reads the module-level pair
AppCounter(w) ==
    El("div", << <<K_class, Str("counter")>> >>, <<
        El("p", <<>>, <<Text("Count: " \o JSString(getValue(w.globalCount, w)))>>),
        El("button", << <<K_onClick, Fn("increment", w.globalCount, w.passes)>> >>,
           <<Text("Increment")>>),
        El("button", << <<K_onClick, Fn("decrement", w.globalCount, w.passes)>> >>,
           <<Text("Decrement")>>) >>)

Navigation(w) ==
    El("nav", <<>>, <<
        El("button", << <<K_onClick, Fn("navigateHome", NoSlot, w.passes)>> >>,
           <<Text("Home")>>),
        El("button", << <<K_onClick, Fn("navigateAbout", NoSlot, w.passes)>> >>,
           <<Text("About")>>),
        El("button", << <<K_onClick, Fn("navigateContact", NoSlot, w.passes)>> >>,
           <<Text("Contact")>>) >>)

HomePage(w) ==
    [w |-> w,
     ret |-> El("div", <<>>, <<
                El("h1", <<>>, <<Text("Home Page")>>),
                El("p", <<>>, <<Text("Welcome to the home page with state management")>>),
                AppCounter(w),
                El("button", << <<K_onClick, Fn("alertHello", NoSlot, w.passes)>> >>,
                   <<Text("Say Hello")>>) >>)]

Blog ==
    El("div", << <<K_class, Str("blog")>> >>, <<
        El("h2", <<>>, <<Text("Blog Section")>>),
        El("p", <<>>, <<Text("Welcome to my blog! Here are some interesting thoughts.")>>),
        El("p", <<>>, <<Text("This is the first blog post about building a JavaScript framework.")>>),
        El("p", <<>>, <<Text("It's amazing how much you can accomplish with just a few functions!")>>) >>)

AboutPage(w) ==
    [w |-> w,
     ret |-> El("div", <<>>, <<
                El("h1", <<>>, <<Text("About Page")>>),
                El("p", <<>>, <<Text("This is the about page of our Dot.js framework demo.")>>),
                Blog >>)]

ContactPage(w) ==
    [w |-> w,
     ret |-> El("div", <<>>, <<
                El("h1", <<>>, <<Text("Contact Page")>>),
                El("p", <<>>, <<Text("Get in touch with us!")>>),
                El("p", <<>>, <<Text("Email: hello@dotjs.com")>>),
                El("p", <<>>, <<Text("Phone: (555) 123-4567")>>) >>)]

\* the fixed not-found tree of Router
NotFound == El("div", <<>>, <<El("h1", <<>>, <<Text("404 - Page Not Found")>>)>>)

\* RouteComponent(): the call of a registered component function
RouteCall(fn, w) ==
    CASE fn.fn = "HomePage" -> HomePage(w)
      [] fn.fn = "AboutPage" -> AboutPage(w)
      [] fn.fn = "ContactPage" -> ContactPage(w)

\* whether the characters of q start the characters of s
IsPrefix(q, s) == Len(q) <= Len(s) /\ SubSeq(s, 1, Len(q)) = q

\* a variant of Router that takes a registered path that starts the current
\* path for a match
RouterPrefix(w) ==
    IF \E q \in DOMAIN w.routes : IsPrefix(Chars(q), Chars(w.currentRoute))
    THEN RouteCall(w.routes[CHOOSE q \in DOMAIN w.routes :
                                IsPrefix(Chars(q), Chars(w.currentRoute))], w)
    ELSE [w |-> w, ret |-> NotFound]

\* Router()
Router(w) ==
    IF w.currentRoute \in DOMAIN w.routes /\ Truthy(w.routes[w.currentRoute])
    THEN IF TypeOf(w.routes[w.currentRoute]) = "function"
         THEN RouteCall(w.routes[w.currentRoute], w)
         ELSE [w |-> w, ret |-> w.routes[w.currentRoute]]
    ELSE [w |-> w, ret |-> NotFound]

\* what App returns, given its navigation bar and the result of Router()
AppView(navigation, routed) ==
    IF ~Ok(routed.w) THEN routed
    ELSE [w |-> routed.w,
          ret |-> El("div", <<>>, <<navigation, El("hr", <<>>, <<>>), routed.ret>>)]
\* function App() of the routed example
App(w) == AppView(Navigation(w), Router(w))

\* renderFunction(): the call of a render source that is a function
Call(fn, w) ==
    CASE fn.fn = "Counter" -> Counter(w)
      [] fn.fn = "TodoApp" -> TodoApp(w)
      [] fn.fn = "ItemList" -> ItemList(w)
      [] fn.fn = "App" -> App(w)

(***************************************************************************)
(* The mount / rerender cycle.                                             *)
(***************************************************************************)
\* typeof renderFunction === 'function' ? renderFunction() : renderFunction
\* (a render pass resolves its render source once: the pass is counted here)
Resolve(renderFunction, w) ==
    IF TypeOf(renderFunction) = "function"
    THEN Call(renderFunction, [w EXCEPT !.passes = @ + 1])
    ELSE [w |-> [w EXCEPT !.passes = @ + 1], ret |-> renderFunction]

\* render(vnode, container) of the resolved virtual node
RenderResolved(container, resolved) ==
    render(resolved.ret, container, resolved.w).w

\* a variant of mount that keeps the render source of an earlier mount
mountKeepSource(renderFunction, container, w) ==
    RenderResolved(container,
        Resolve(renderFunction,
            [clearInnerHTML(container,
                 cleanupEventListeners(container,
                     [w EXCEPT !.currentRenderFunction =
                                   IF Truthy(@) THEN @ ELSE renderFunction,
                               !.currentContainer = container]))
             EXCEPT !.currentStateIndex = 0]))

\* a variant of mount that leaves the container's content in place
mountNoClear(renderFunction, container, w) ==
    RenderResolved(container,
        Resolve(renderFunction,
            [cleanupEventListeners(container,
                 [w EXCEPT !.currentRenderFunction = renderFunction,
                           !.currentContainer = container])
             EXCEPT !.currentStateIndex = 0]))

\* mount(renderFunction, container)
mount(renderFunction, container, w) ==
    RenderResolved(container,
        Resolve(renderFunction,
            [clearInnerHTML(container,
                 cleanupEventListeners(container,
                     [w EXCEPT !.currentRenderFunction = renderFunction,
                               !.currentContainer = container]))
             EXCEPT !.currentStateIndex = 0]))

\* a variant of rerender that clears the container before the cleanup
rerenderClearFirst(w) ==
    IF ~Ok(w) THEN w
    ELSE IF Truthy(w.currentRenderFunction) /\ w.currentContainer # NoNode
    THEN RenderResolved(w.currentContainer,
             Resolve(w.currentRenderFunction,
                 [cleanupEventListeners(w.currentContainer,
                      clearInnerHTML(w.currentContainer, w))
                  EXCEPT !.currentStateIndex = 0]))
    ELSE w

\* a variant of rerender that resets the cursor before it looks for a target
rerenderResetFirst(w) ==
    IF ~Ok(w) THEN w
    ELSE IF Truthy(w.currentRenderFunction) /\ w.currentContainer # NoNode
    THEN RenderResolved(w.currentContainer,
             Resolve(w.currentRenderFunction,
                 [clearInnerHTML(w.currentContainer,
                      cleanupEventListeners(w.currentContainer, w))
                  EXCEPT !.currentStateIndex = 0]))
    ELSE [w EXCEPT !.currentStateIndex = 0]

\* a variant of rerender that patches: it keeps the cursor where the previous
\* pass left it
rerenderNoReset(w) ==
    IF ~Ok(w) THEN w
    ELSE IF Truthy(w.currentRenderFunction) /\ w.currentContainer # NoNode
    THEN RenderResolved(w.currentContainer,
             Resolve(w.currentRenderFunction,
                 clearInnerHTML(w.currentContainer,
                     cleanupEventListeners(w.currentContainer, w))))
    ELSE w

\* a variant of rerender that traps what the pass throws
rerenderTrapped(w) ==
    IF ~Ok(w) THEN w
    ELSE IF Truthy(w.currentRenderFunction) /\ w.currentContainer # NoNode
    THEN [RenderResolved(w.currentContainer,
              Resolve(w.currentRenderFunction,
                  [clearInnerHTML(w.currentContainer,
                       cleanupEventListeners(w.currentContainer, w))
                   EXCEPT !.currentStateIndex = 0]))
          EXCEPT !.err = NoError]
    ELSE w

\* rerender()
rerender(w) ==
    IF ~Ok(w) THEN w
    ELSE IF Truthy(w.currentRenderFunction) /\ w.currentContainer # NoNode
    THEN RenderResolved(w.currentContainer,
             Resolve(w.currentRenderFunction,
                 [clearInnerHTML(w.currentContainer,
                      cleanupEventListeners(w.currentContainer, w))
                  EXCEPT !.currentStateIndex = 0]))
    ELSE w

\* a variant of setValue that stores the value and leaves the pass to a later
\* call
setValueDeferred(stateIndex, newValue, w) ==
    IF ~Ok(w) THEN w
    ELSE [w EXCEPT !.stateStore = StoreSet(@, stateIndex, newValue)]

\* a variant of setValue that skips the pass when the value does not change
setValueIfChanged(stateIndex, newValue, w) ==
    IF ~Ok(w) \/ StoreGet(w.stateStore, stateIndex) = newValue THEN w
    ELSE rerender([w EXCEPT !.stateStore = StoreSet(@, stateIndex, newValue)])

\* a variant of setValue that writes where the cursor stands when it is called
setValueAtCursor(stateIndex, newValue, w) ==
    IF ~Ok(w) THEN w
    ELSE rerender([w EXCEPT !.stateStore = StoreSet(@, w.currentStateIndex, newValue)])

\* setValue(newValue) of the pair bound to stateIndex
setValue(stateIndex, newValue, w) ==
    IF ~Ok(w) THEN w
    ELSE rerender([w EXCEPT !.stateStore = StoreSet(@, stateIndex, newValue)])

(***************************************************************************)
(* The router's operations.                                                *)
(***************************************************************************)
\* window.location.pathname
Pathname(w) == w.history[w.historyIndex]

\* window.history.pushState({}, '', path): the entries after the current one
\* are dropped and the new one becomes current
pushState(path, w) ==
    [w EXCEPT !.history = Append(SubSeq(@, 1, w.historyIndex), path),
              !.historyIndex = @ + 1]

\* a variant of addRoute without input validation, as in the revision of the
\* core before validation: the key is the string form of the path
addRouteUnchecked(path, component, w) ==
    [w EXCEPT !.routes =
        [q \in (DOMAIN @) \cup {JSString(path)} |->
            IF q = JSString(path) THEN component ELSE @[q]]]

\* a variant of addRoute that starts a pass after the registration
addRouteRerender(path, component, w) ==
    IF ~Truthy(path) \/ TypeOf(path) # "string"
    THEN Raise(w, "addRoute(): path must be a non-empty string")
    ELSE IF ~Truthy(component)
            \/ (TypeOf(component) # "function" /\ TypeOf(component) # "object")
    THEN Raise(w, "addRoute(): component must be a function or object")
    ELSE rerender([w EXCEPT !.routes =
             [q \in (DOMAIN @) \cup {path.s} |-> IF q = path.s THEN component ELSE @[q]]])

\* addRoute(path, component)
addRoute(path, component, w) ==
    IF ~Truthy(path) \/ TypeOf(path) # "string"
    THEN Raise(w, "addRoute(): path must be a non-empty string")
    ELSE IF ~Truthy(component)
            \/ (TypeOf(component) # "function" /\ TypeOf(component) # "object")
    THEN Raise(w, "addRoute(): component must be a function or object")
    ELSE [w EXCEPT !.routes =
             [q \in (DOMAIN @) \cup {path.s} |-> IF q = path.s THEN component ELSE @[q]]]

\* a variant of navigate that leaves the rendering to a later pass
navigateNoRender(path, w) ==
    IF ~Truthy(path) \/ TypeOf(path) # "string"
    THEN Raise(w, "navigate(): path must be a non-empty string")
    ELSE IF ~StartsWithSlash(path.s)
    THEN Raise(w, "navigate(): path must start with /")
    ELSE pushState(path.s, [w EXCEPT !.currentRoute = path.s])

\* a variant of navigate without input validation, as in the revision of the
\* core before validation: the path is used in its string form
navigateUnchecked(path, w) ==
    rerender(pushState(JSString(path), [w EXCEPT !.currentRoute = JSString(path)]))

\* a variant of navigate that takes every non-empty string for a path
navigateAnyString(path, w) ==
    IF ~Truthy(path) \/ TypeOf(path) # "string"
    THEN Raise(w, "navigate(): path must be a non-empty string")
    ELSE rerender(pushState(path.s, [w EXCEPT !.currentRoute = path.s]))

\* navigate(path)
navigate(path, w) ==
    IF ~Truthy(path) \/ TypeOf(path) # "string"
    THEN Raise(w, "navigate(): path must be a non-empty string")
    ELSE IF ~StartsWithSlash(path.s)
    THEN Raise(w, "navigate(): path must start with /")
    ELSE rerender(pushState(path.s, [w EXCEPT !.currentRoute = path.s]))

\* getCurrentRoute()
getCurrentRoute(w) == w.currentRoute

\* the popstate listener: the host has already moved to the entry
\* a variant of the popstate listener that runs the pass without reading the
\* address
onPopStateKeepRoute(w) == rerender(w)

onPopState(w) == rerender([w EXCEPT !.currentRoute = Pathname(w)])

(***************************************************************************)
(* The event handlers the example applications attach.                     *)
(***************************************************************************)
SetterHandlers == {"increment", "decrement", "reset", "setNewTodo", "toggleTodo"}
NavigateHandlers == {"navigateHome", "navigateAbout", "navigateContact"}
\* the path a button of the navigation bar passes to navigate
HandlerPath(name) ==
    CASE name = "navigateHome" -> "/"
      [] name = "navigateAbout" -> "/about"
      [] name = "navigateContact" -> "/contact"

\* whether the model covers the handler in world w: deleting a todo and the
\* key filter are not modelled, nor is spreading a string into characters
HandlerModelled(fn, w) ==
    /\ fn.fn \notin {"deleteTodo", "handleKeyPress"}
    /\ fn.fn = "addTodo" => getValue(fn.slot - 1, w).t # "string"

\* the value a handler passes to the setter it is bound to
HandlerValue(fn, w) ==
    CASE fn.fn = "increment" -> JSAdd(getValue(fn.slot, w), 1)
      [] fn.fn = "decrement" -> JSAdd(getValue(fn.slot, w), -1)
      [] fn.fn = "reset" -> Num(0)
      [] fn.fn = "setNewTodo" -> Str("a")
      [] fn.fn = "toggleTodo" -> getValue(fn.slot, w)

\* addTodo of TodoApp: bound to the pairs of slots fn.slot - 1 (todos) and
\* fn.slot (newTodo), which TodoApp obtains in consecutive useState calls
addTodo(fn, w) ==
    IF getValue(fn.slot, w).t # "string" THEN Raise(w, "TypeError")
    ELSE IF getValue(fn.slot, w).s = "" THEN w
    ELSE IF getValue(fn.slot - 1, w).t # "array" THEN Raise(w, "TypeError")
    ELSE setValue(fn.slot, Str(""),
             setValue(fn.slot - 1,
                 Arr(Append(getValue(fn.slot - 1, w).items, getValue(fn.slot, w))), w))

\* handler(event): the call of an attached listener
CallHandler(fn, w) ==
    IF fn.fn \in SetterHandlers
    THEN IF fn.fn = "toggleTodo" /\ getValue(fn.slot, w).t # "array"
         THEN Raise(w, "TypeError")
         ELSE setValue(fn.slot, HandlerValue(fn, w), w)
    ELSE IF fn.fn = "addTodo" THEN addTodo(fn, w)
    ELSE IF fn.fn \in NavigateHandlers
    THEN navigate(Str(HandlerPath(fn.fn)), w)
    ELSE w

RECURSIVE Descendants(_, _)
\* the nodes of the subtree of n, n included
Descendants(n, ns) ==
    {n} \cup UNION {Descendants(ns[n].children[i], ns) : i \in 1..Len(ns[n].children)}
\* the nodes that are in the document
InDocument(ns) == UNION {Descendants(c, ns) : c \in Containers}

(***************************************************************************)
(* Initial state and actions: one per call of an entry point of the core.  *)
(***************************************************************************)
CallRecord(op, arg, node, slot) ==
    [op |-> op, arg |-> arg, node |-> node, slot |-> slot, err |-> NoError]

\* the render sources applications mount
RenderSources == {Func("Counter"), Func("TodoApp"), Func("ItemList"), ExampleVnode}
\* the values applications pass to a setter
SetterValues == {Undefined, Null, Num(0), Arr(<<>>)}
\* the paths applications pass to navigate
NavigatePaths == {Str("/contact"), Str("about"), Str(""), Null}
\* the registrations of the routed example, in the order of its script
RouteScript ==
    << <<Str("/"), Func("HomePage")>>, <<Str("/about"), Func("AboutPage")>>,
       <<Str("/contact"), Func("ContactPage")>> >>
\* registrations with an argument addRoute rejects: <<path, component>>
BadRegistrations == {<<Str(""), Func("AboutPage")>>, <<Str("/about"), Null>>}
RouterSetterValues == {Undefined, Num(0)}
\* the addresses the page is loaded at
InitialPaths == {"/", "/about"}

\* the state once the core's module has been evaluated in a page loaded at
\* address `path`: the current route is seeded from the address
InitState(path) ==
    /\ nodes = [c \in Containers |-> RealNode("div", "")]
    /\ activeEventListeners = <<>>
    /\ currentRenderFunction = Null
    /\ currentContainer = NoNode
    /\ stateStore = <<>>
    /\ currentStateIndex = 0
    /\ routes = <<>>
    /\ history = <<path>>
    /\ currentRoute = path
    /\ historyIndex = 1
    /\ handles = {}
    /\ globalCount = NoSlot
    /\ passes = 0
    /\ callStack = <<>>

InitAt(path) ==
    /\ InitState(path)
    /\ lastCall = CallRecord("load", Undefined, NoNode, NoSlot)

Init == InitAt("/")

\* the variables of the core and of the host after a call, or a step of a
\* call, that left the world `world`
Assign(world, call) == \E w \in {world} :
    /\ nodes' = [n \in InDocument(w.nodes) |-> w.nodes[n]]
    /\ activeEventListeners' = w.activeEventListeners
    /\ currentRenderFunction' = w.currentRenderFunction
    /\ currentContainer' = w.currentContainer
    /\ stateStore' = w.stateStore
    /\ currentStateIndex' = w.currentStateIndex
    /\ routes' = w.routes
    /\ currentRoute' = w.currentRoute
    /\ history' = w.history
    /\ historyIndex' = w.historyIndex
    /\ handles' = w.handles
    /\ globalCount' = w.globalCount
    /\ passes' = w.passes
    /\ lastCall' = [call EXCEPT !.err = w.err]

\* the state after a call that ran from its first step to its return
Commit(world, call) ==
    /\ Assign(world, call)
    /\ callStack' = callStack

Mount(renderFunction, container) ==
    /\ passes < MaxPasses
    /\ Commit(mount(renderFunction, container, World),
              CallRecord("mount", renderFunction, container, NoSlot))

Rerender ==
    /\ passes < MaxPasses
    /\ Commit(rerender(World), CallRecord("rerender", Undefined, NoNode, NoSlot))

SetValue(stateIndex, newValue) ==
    /\ passes < MaxPasses
    /\ stateIndex \in handles
    /\ Commit(setValue(stateIndex, newValue, World),
              CallRecord("setValue", newValue, NoNode, stateIndex))

\* the application's module-level `const [count, setCount] = useState(0)`
UseStateTop ==
    /\ globalCount = NoSlot
    /\ Commit([useState(Num(0), World).w EXCEPT !.globalCount = currentStateIndex],
              CallRecord("useState", Num(0), NoNode, currentStateIndex))

\* a direct call render(vnode, container) of the application; the record
\* keeps the node the call returned
Render(vnode, container) ==
    Commit(render(vnode, container, World).w,
           CallRecord("render", vnode, render(vnode, container, World).ret, NoSlot))

\* a call h(type, props, ...children) of the application; the record keeps
\* the arguments and what the call returned
H(type, props, children) ==
    Commit(IF h(type, props, children).t = "throw"
           THEN Raise(World, h(type, props, children).msg) ELSE World,
           CallRecord("h", [type |-> type, props |-> props, children |-> children,
                            ret |-> h(type, props, children)], NoNode, NoSlot))

\* the host calls the listener at position i of node n
Fire(n, i) ==
    /\ n \in InDocument(nodes)
    /\ i \in 1..Len(nodes[n].listeners)
    /\ HandlerModelled(nodes[n].listeners[i][2], World)
    /\ Commit(CallHandler(nodes[n].listeners[i][2], World),
              CallRecord("dispatch", nodes[n].listeners[i][2], n, NoSlot))

\* an event of the user on node n
Dispatch(n, i) ==
    /\ passes < MaxPasses
    /\ Fire(n, i)

\* a click on the "+" button of the mounted Counter: () => setCount(count() + 1)
Increment(n) ==
    /\ passes <= MaxClicks
    /\ currentRenderFunction = Func("Counter")
    /\ Len(nodes[n].listeners) = 1
    /\ nodes[n].listeners[1][2].fn = "increment"
    /\ Fire(n, 1)

AddRoute(path, component) ==
    /\ Commit(addRoute(path, component, World),
              CallRecord("addRoute", path, NoNode, NoSlot))

Navigate(path) ==
    /\ passes < MaxPasses
    /\ historyIndex < MaxHistory
    /\ Commit(navigate(path, World), CallRecord("navigate", path, NoNode, NoSlot))

\* the user goes back (delta = -1) or forward (delta = 1) in the history
PopState(delta) ==
    /\ passes < MaxPasses
    /\ historyIndex + delta \in 1..Len(history)
    /\ Commit(onPopState([World EXCEPT !.historyIndex = @ + delta]),
              CallRecord("popstate", Num(delta), NoNode, NoSlot))

\* The mount / rerender cycle and the state store, under the applications
\* that do not use the router.
Next ==
    \/ \E f \in RenderSources, c \in Containers : Mount(f, c)
    \/ Rerender
    \/ \E k \in 0..1, v \in SetterValues : SetValue(k, v)
    \/ \E n \in DOMAIN nodes, i \in 1..2 : Dispatch(n, i)

Spec == Init /\ [][Next]_vars

\* The routed example application: its module-level state, its routes, and
\* the calls an application and the host make before and after it is mounted.
InitRouter == \E path \in InitialPaths : InitAt(path)

NextRouter ==
    \/ Mount(Func("App"), Container1)
    \/ Rerender
    \/ UseStateTop
    \/ \E v \in RouterSetterValues : SetValue(0, v)
    \/ \E n \in DOMAIN nodes : Dispatch(n, 1)
    \/ \E i \in 1..Len(RouteScript) :
          /\ Cardinality(DOMAIN routes) = i - 1
          /\ globalCount # NoSlot
          /\ AddRoute(RouteScript[i][1], RouteScript[i][2])
    \/ \E r \in BadRegistrations : AddRoute(r[1], r[2])
    \/ \E p \in NavigatePaths : Navigate(p)
    \/ \E d \in {-1, 1} : PopState(d)

SpecRouter == InitRouter /\ [][NextRouter]_vars

\* The counter scenario: the Counter component is mounted in a fresh page and
\* its increment button is clicked, any number of times up to MaxClicks.
NextCounter ==
    \/ \E c \in Containers : passes = 0 /\ Mount(Func("Counter"), c)
    \/ \E n \in DOMAIN nodes : Increment(n)

SpecCounter == Init /\ [][NextCounter]_vars

\* Retargeting: the routed application and the counter are mounted, one after
\* the other and into either container, and passes are triggered in each of
\* the four ways: rerender(), a setter, navigate and a history event.
RetargetSources == {Func("App"), Func("Counter")}

NextRetarget ==
    \/ \E f \in RetargetSources, c \in Containers : Mount(f, c)
    \/ Rerender
    \/ \E x \in RouterSetterValues : SetValue(0, x)
    \/ \E n \in DOMAIN nodes : Dispatch(n, 1)
    \/ AddRoute(RouteScript[2][1], RouteScript[2][2])
    \/ Navigate(Str("/contact"))
    \/ \E delta \in {-1, 1} : PopState(delta)

SpecRetarget == Init /\ [][NextRetarget]_vars

(***************************************************************************)
(* The cycle step by step: the calls of mount, rerender, a setter and      *)
(* navigate as frames on the host's call stack, for render sources that    *)
(* call a setter or navigate while the pass that runs them is in progress. *)
(* An exception unwinds every frame: the core catches nothing.             *)
(***************************************************************************)
\* a frame: the function, where it stands, and the virtual node handed to it
Frame(fn, pc) == [fn |-> fn, pc |-> pc, ret |-> Undefined]
\* a variant of PopFrame in which a function never returns
PopNothing(stack) == stack
\* the stack after the running function returned
PopFrame(stack) == SubSeq(stack, 1, Len(stack) - 1)
Top(stack) == stack[Len(stack)]
SetTop(stack, pc, ret) == [stack EXCEPT ![Len(stack)] = [@ EXCEPT !.pc = pc, !.ret = ret]]

\* rerender up to the resolution of its source: cleanup, clear, cursor reset
PassPrefix(w) ==
    [clearInnerHTML(w.currentContainer, cleanupEventListeners(w.currentContainer, w))
     EXCEPT !.currentStateIndex = 0]

\* the state after a step of a call in progress; a throw unwinds the stack
Step(world, call, stack) ==
    /\ Assign(world, call)
    /\ callStack' = IF Ok(world) THEN stack ELSE <<>>

\* a virtual node as source, and four components that act while they run:
\*   Settle:   const [n, setN] = useState(0);
\*             if (n() < SettleLimit) setN(n() + 1); return h('p', {}, n())
\*   Loop:     const [n, setN] = useState(0); setN(0); return h('p', {}, n())
\*   Redirect: if (getCurrentRoute() !== '/about') navigate('/about');
\*             return h('p', {}, getCurrentRoute())
\*   Fragile:  const [n, setN] = useState(0);
\*             if (n() < SettleLimit) { setN(n() + 1); throw new Error('stale') }
\*             return h('p', {}, n())
ReentrantSources ==
    {Text("Hello World"), Func("Settle"), Func("Loop"), Func("Redirect"), Func("Fragile")}

\* mount(renderFunction, container) is called: it runs up to the resolution
BeginMount(renderFunction, container) ==
    /\ callStack = <<>>
    /\ passes < MaxPasses
    /\ Step([clearInnerHTML(container,
                 cleanupEventListeners(container,
                     [World EXCEPT !.currentRenderFunction = renderFunction,
                                   !.currentContainer = container]))
             EXCEPT !.currentStateIndex = 0],
            CallRecord("mount", renderFunction, container, NoSlot),
            <<Frame("mount", "resolve")>>)

\* rerender() is called; without a target it returns at once
BeginRerender ==
    /\ callStack = <<>>
    /\ passes < MaxPasses
    /\ IF TargetActiveIn(World)
       THEN Step(PassPrefix(World), CallRecord("rerender", Undefined, NoNode, NoSlot),
                 <<Frame("rerender", "resolve")>>)
       ELSE Step(World, CallRecord("rerender", Undefined, NoNode, NoSlot), <<>>)

\* the frames of the rerender() a setter or navigate calls in world w
RerenderFrames(w, caller) ==
    IF TargetActiveIn(w) THEN <<Frame(caller, "wait"), Frame("rerender", "resolve")>>
    ELSE <<Frame(caller, "wait")>>
\* the world when that rerender() stands at the resolution of its source
RerenderEntered(w) == IF TargetActiveIn(w) THEN PassPrefix(w) ELSE w

\* setValue(newValue) of the pair bound to stateIndex is called
BeginSetValue(stateIndex, newValue) ==
    /\ callStack = <<>>
    /\ passes < MaxPasses
    /\ stateIndex \in handles
    /\ Step(RerenderEntered([World EXCEPT !.stateStore = StoreSet(@, stateIndex, newValue)]),
            CallRecord("setValue", newValue, NoNode, stateIndex),
            RerenderFrames(World, "setValue"))

\* navigate(path) is called with a valid path
BeginNavigate(path) ==
    /\ callStack = <<>>
    /\ passes < MaxPasses
    /\ historyIndex < MaxHistory
    /\ Step(RerenderEntered(pushState(path, [World EXCEPT !.currentRoute = path])),
            CallRecord("navigate", Str(path), NoNode, NoSlot),
            RerenderFrames(World, "navigate"))

\* mount or rerender resolves its source: a source that is no function is
\* rendered as it is; a function is called, if the stack has room
ResolveSource ==
    /\ callStack # <<>>
    /\ Top(callStack).fn \in {"mount", "rerender"}
    /\ Top(callStack).pc = "resolve"
    /\ IF TypeOf(currentRenderFunction) # "function"
       THEN Step(render(currentRenderFunction, currentContainer,
                        [World EXCEPT !.passes = @ + 1]).w,
                 lastCall, PopFrame(callStack))
       ELSE IF Len(callStack) >= StackLimit
       THEN Step(Raise(World, "RangeError"), lastCall, <<>>)
       ELSE Step([World EXCEPT !.passes = @ + 1], lastCall,
                 Append(SetTop(callStack, "render", Undefined), Frame("source", "body")))

\* the body of a source that calls a setter with `value` when `acts` holds
\* and goes on at `next` when the setter has returned; u is the result of its
\* useState call
SetterInBody(u, acts, value, next) ==
    IF ~acts THEN Step(u.w, lastCall, SetTop(callStack, "return", Undefined))
    ELSE IF Len(callStack) + 2 > StackLimit
    THEN Step(Raise(u.w, "RangeError"), lastCall, <<>>)
    ELSE Step(RerenderEntered([u.w EXCEPT !.stateStore = StoreSet(@, u.ret, value)]),
              lastCall,
              SetTop(callStack, next, Undefined) \o RerenderFrames(u.w, "setValue"))
SettleBody(u) ==
    SetterInBody(u,
                 getValue(u.ret, u.w).t = "number" /\ getValue(u.ret, u.w).n < SettleLimit,
                 JSAdd(getValue(u.ret, u.w), 1), "return")
LoopBody(u) == SetterInBody(u, TRUE, Num(0), "return")
FragileBody(u) ==
    SetterInBody(u,
                 getValue(u.ret, u.w).t = "number" /\ getValue(u.ret, u.w).n < SettleLimit,
                 JSAdd(getValue(u.ret, u.w), 1), "throw")
RedirectBody ==
    IF currentRoute = "/about"
    THEN Step(World, lastCall, SetTop(callStack, "return", Undefined))
    ELSE IF Len(callStack) + 2 > StackLimit
    THEN Step(Raise(World, "RangeError"), lastCall, <<>>)
    ELSE Step(RerenderEntered(pushState("/about", [World EXCEPT !.currentRoute = "/about"])),
              lastCall,
              SetTop(callStack, "return", Undefined) \o RerenderFrames(World, "navigate"))

\* the source runs its body up to its return statement, or up to the call of
\* a setter or of navigate it makes on the way
SourceBody ==
    /\ callStack # <<>>
    /\ Top(callStack).fn = "source"
    /\ Top(callStack).pc = "body"
    /\ CASE currentRenderFunction.fn = "Settle" -> SettleBody(useState(Num(0), World))
         [] currentRenderFunction.fn = "Loop" -> LoopBody(useState(Num(0), World))
         [] currentRenderFunction.fn = "Redirect" -> RedirectBody
         [] currentRenderFunction.fn = "Fragile" -> FragileBody(useState(Num(0), World))

\* the return statement of the source: the getter of its pair, the one of
\* slot 0, and getCurrentRoute() are read now, after what the body called
ReturnedNode(w) ==
    IF w.currentRenderFunction.fn = "Redirect"
    THEN El("p", <<>>, <<Str(w.currentRoute)>>)
    ELSE El("p", <<>>, <<getValue(0, w)>>)

\* the source returns its virtual node to the pass that called it
SourceReturn ==
    /\ callStack # <<>>
    /\ Top(callStack).fn = "source"
    /\ Top(callStack).pc = "return"
    /\ Step(World, lastCall,
            SetTop(PopFrame(callStack), "render", ReturnedNode(World)))

\* the source throws; no function on the stack catches
SourceThrow ==
    /\ callStack # <<>>
    /\ Top(callStack).fn = "source"
    /\ Top(callStack).pc = "throw"
    /\ Step(Raise(World, "Error"), lastCall, <<>>)

\* the pass renders the node into the container and returns
RenderStep ==
    /\ callStack # <<>>
    /\ Top(callStack).fn \in {"mount", "rerender"}
    /\ Top(callStack).pc = "render"
    /\ Step(render(Top(callStack).ret, currentContainer, World).w, lastCall,
            PopFrame(callStack))

\* a setter or navigate returns once its rerender() has returned
ReturnCall ==
    /\ callStack # <<>>
    /\ Top(callStack).fn \in {"setValue", "navigate"}
    /\ Step(World, lastCall, PopFrame(callStack))

\* a step of the call in progress
RunStep ==
    ResolveSource \/ SourceBody \/ SourceReturn \/ SourceThrow \/ RenderStep \/ ReturnCall

NextReentrant ==
    \/ \E f \in ReentrantSources : BeginMount(f, Container1)
    \/ BeginRerender
    \/ \E x \in RouterSetterValues : BeginSetValue(0, x)
    \/ BeginNavigate("/contact")
    \/ RunStep

\* the host runs a call in progress to its end: a step that can be taken is taken
SpecReentrant == Init /\ [][NextReentrant]_vars /\ WF_vars(RunStep)

\* An application that holds a module-level getter/setter pair, as the routed
\* example does, and mounts components that call useState themselves, as the
\* documented Counter and TodoApp do.
StoreSources == {Func("Counter"), Func("TodoApp")}

NextStore ==
    \/ UseStateTop
    \/ \E k \in 0..1, x \in SetterValues : SetValue(k, x)
    \/ \E f \in StoreSources : Mount(f, Container1)
    \/ Rerender
    \/ \E n \in DOMAIN nodes, i \in 1..2 : Dispatch(n, i)

SpecStore == Init /\ [][NextStore]_vars

\* The renderer as a function: a virtual-node tree is drawn from a bounded
\* set and rendered once into the empty first container.
Tags == {"div", "button"}
AttributeMaps ==
    {<<>>, << <<K_id, Str("main")>> >>,
     << <<K_className, Str("container")>>, <<K_disabled, Bool(TRUE)>> >>}
TextChildren == {Str("Hello World"), Num(3)}
\* elements with at most one text child
SmallElements ==
    {El(tag, attrs, <<>>) : tag \in Tags, attrs \in AttributeMaps}
    \cup {El("button", attrs, <<text>>) : attrs \in AttributeMaps, text \in TextChildren}
\* children lists: texts, elements, and an array of them as one child
ChildLists ==
    {<<>>}
    \cup {<<c>> : c \in TextChildren \cup SmallElements}
    \cup {<<text, el>> : text \in TextChildren, el \in {El("button", <<>>, <<Str("Click me")>>)}}
    \cup {<<Arr(<<text, el>>), text>> : text \in TextChildren,
                                       el \in {El("button", <<>>, <<Str("Click me")>>)}}
HandlerFreeTrees ==
    TextChildren \cup {El(tag, attrs, cs) : tag \in Tags, attrs \in AttributeMaps, cs \in ChildLists}
\* the documented conditional pattern: h('div', {}, isVisible && h('p', ...));
\* a falsy isVisible is itself the child
ConditionalContent(isVisible) ==
    El("div", <<>>,
       <<IF Truthy(isVisible)
         THEN El("p", <<>>, <<Str("This content is visible")>>)
         ELSE isVisible>>)
ConditionalTrees == {ConditionalContent(Bool(b)) : b \in BOOLEAN}
\* elements with up to two props: keys with the prefix "on" in lower case and
\* capitalised and a key without it, values callable and not
PropKeys == {K_onClick, K_OnInput, K_onMouseEnter, K_id}
PropValues == {Func("handleClick"), Str("main"), Bool(TRUE)}
PropEntries == {<<key, value>> : key \in PropKeys, value \in PropValues}
PropLists ==
    {<<>>} \cup {<<e>> : e \in PropEntries}
    \cup {pair \in {<<e1, e2>> : e1 \in PropEntries, e2 \in PropEntries} :
             pair[1][1] # pair[2][1]}
PropTrees == {El("button", entries, <<>>) : entries \in PropLists}
\* children lists with arrays among the children, one and two levels deep;
\* the list of user cards is the one a map() over two users gives
UserCard(name) ==
    El("div", << <<K_class, Str("user-card")>> >>,
       <<El("h3", <<>>, <<Str(name)>>), El("p", <<>>, <<Str(name \o "@example.com")>>)>>)
NestedChildLists ==
    {<<Str("a"), Arr(<<Str("b"), Str("c")>>), Str("d")>>,
     <<Arr(<<Str("a"), Str("b")>>), Arr(<<Str("c"), Str("d")>>)>>,
     <<Arr(<<>>), Str("a")>>,
     <<Arr(<<UserCard("Ann"), UserCard("Bob")>>)>>,
     <<Str("a"), Arr(<<Str("b"), Arr(<<Str("c"), Str("d")>>)>>), Str("d")>>,
     <<Arr(<<Arr(<<Str("a")>>)>>)>>}
NestedTrees == {El("div", <<>>, children) : children \in NestedChildLists}
\* elements with two keys that derive the same event name, with the same
\* handler and with two handlers
SameEventTrees ==
    {El("button", << <<K_onClick, Func("handleClick")>>, <<K_onclick, handler>> >>, <<>>) :
        handler \in {Func("handleClick"), Func("handleOther")}}
RenderInputs ==
    HandlerFreeTrees \cup ConditionalTrees \cup PropTrees \cup NestedTrees \cup SameEventTrees

InitRender ==
    \E vnode \in RenderInputs :
        /\ InitState("/")
        /\ lastCall = CallRecord("input", vnode, NoNode, NoSlot)

NextRender == lastCall.op = "input" /\ Render(lastCall.arg, Container1)

SpecRender == InitRender /\ [][NextRender]_vars

\* The renderer called by the application itself, again and again and into
\* either container, before and after the Counter is mounted: a text, an
\* element with a listener, a nested element, and an element whose second
\* child is null, at which rendering throws.
AppendInputs ==
    {Text("Hello World"),
     El("button", << <<K_onClick, Func("handleClick")>> >>, <<Str("Click me")>>),
     UserCard("Ann"),
     El("div", <<>>, <<Str("a"), Null>>)}

\* the children of the two containers, counted
ChildrenHeld == Len(nodes[Container1].children) + Len(nodes[Container2].children)

NextAppend ==
    \/ \E vnode \in AppendInputs, c \in Containers :
          /\ ChildrenHeld < MaxChildren
          /\ Render(vnode, c)
    \/ passes = 0 /\ Mount(Func("Counter"), Container1)

SpecAppend == Init /\ [][NextAppend]_vars

\* h as a function: its arguments are drawn from bounded sets of values of
\* every type, and it is called once.
TypeArguments ==
    {Str("div"), Str(""), Func("Counter"), Num(0), Num(1), Null, Undefined,
     Bool(TRUE), Obj(<<>>), Arr(<<Str("div")>>)}
PropsArguments ==
    {Undefined, Null, Obj(<<>>), Obj(<< <<K_id, Str("main")>>, <<K_onClick, Func("alertClicked")>> >>),
     Arr(<<>>), Str("main"), Str(""), Num(0), Bool(FALSE), Func("alertClicked")}
ChildrenArguments ==
    {<<>>, <<Str("Hello World")>>, <<Str("Hello World"), NotFound>>,
     <<Arr(<<Str("a"), Arr(<<Num(1)>>)>>), Null, Bool(FALSE)>>}

InitH ==
    \E type \in TypeArguments, props \in PropsArguments, children \in ChildrenArguments :
        /\ InitState("/")
        /\ lastCall = CallRecord("input",
                          [type |-> type, props |-> props, children |-> children],
                          NoNode, NoSlot)

NextH ==
    lastCall.op = "input" /\ H(lastCall.arg.type, lastCall.arg.props, lastCall.arg.children)

SpecH == InitH /\ [][NextH]_vars

\* addRoute as called by an application with arguments of every type, any
\* number of times.
RoutePathArguments ==
    {Str("/"), Str("/about"), Str("about"), Str(""), Null, Undefined, Num(1), Bool(TRUE)}
ComponentArguments ==
    {Func("HomePage"), NotFound, Arr(<<>>), Null, Undefined, Str("About"), Num(0), Bool(FALSE)}

NextAddRoute ==
    \E path \in RoutePathArguments, component \in ComponentArguments :
        AddRoute(path, component)

SpecAddRoute == Init /\ [][NextAddRoute]_vars

\* Registrations while the routed application is shown: pages are registered
\* and registered again, with another component and for the current path
\* too, before and after mount, between passes started by rerender(),
\* navigate, with a path and with a string that is none, and history events.
RegisteredPaths == {Str("/"), Str("/about")}
RegisteredPages == {Func("AboutPage"), Func("ContactPage")}

NextRoutes ==
    \/ \E path \in RegisteredPaths, component \in RegisteredPages : AddRoute(path, component)
    \/ Mount(Func("App"), Container1)
    \/ Rerender
    \/ \E path \in {Str("/about"), Str("about")} : Navigate(path)
    \/ \E delta \in {-1, 1} : PopState(delta)

SpecRoutes == InitRouter /\ [][NextRoutes]_vars

(***************************************************************************)
(* Properties.                                                             *)
(***************************************************************************)
\* a render target is active
TargetActive == Truthy(currentRenderFunction) /\ currentContainer # NoNode
\* the nodes below container c in the document ns
Content(c, ns) == Descendants(c, ns) \ {c}
\* the data of the text nodes below container c in the document ns
Texts(c, ns) == {ns[n].data : n \in {m \in Content(c, ns) : ns[m].tag = TextTag}}
\* every node below container c was created by pass p
BuiltBy(c, ns, p) == \A n \in Content(c, ns) : n[1] = p

\* C1 State slot stability: with TodoApp mounted (two useState calls, in the
\* same order on every pass), after setter1(x) for any value x of the domain
\* the pass it triggers leaves getter1() = x and getter2() as it was.
C1_SlotStability ==
    [][\A x \in SetterValues :
          (currentRenderFunction = Func("TodoApp") /\ TargetActive /\ SetValue(0, x))
          => /\ StoreGet(stateStore', 0) = x
             /\ StoreGet(stateStore', 1) = StoreGet(stateStore, 1)]_vars

\* the text the mounted counter shows for its count
CounterText(n) == "Count: " \o ToString(n)

\* C2 Counter scenario: Counter mounted in a fresh page, then n clicks each
\* setting getter() + 1: the container shows n and the slot holds n, where n is
\* the number of passes since the mount; every click runs exactly one pass.
C2_CounterScenario ==
    /\ [](TargetActive =>
            /\ CounterText(passes - 1) \in Texts(currentContainer, nodes)
            /\ \A k \in 0..MaxClicks + 1 :
                  k # passes - 1 => CounterText(k) \notin Texts(currentContainer, nodes)
            /\ StoreGet(stateStore, 0) = Num(passes - 1))
    /\ [][\A n \in DOMAIN nodes : Increment(n) => passes' = passes + 1]_vars

\* three clicks after the mount: the counter shows 3 after the fourth pass
C2_ThreeClicks ==
    /\ currentRenderFunction = Func("Counter")
    /\ lastCall.op = "dispatch"
    /\ passes = 4
    /\ CounterText(3) \in Texts(currentContainer, nodes)

\* C3 Setter ordering: whenever a setter is called while a render target is
\* active and the call returns, the slot holds the new value, one pass has run
\* and the active container holds what that pass built.
C3_SetterOrdering ==
    [][\A k \in 0..1, x \in SetterValues :
          (TargetActive /\ SetValue(k, x) /\ lastCall'.err = NoError)
          => /\ StoreGet(stateStore', k) = x
             /\ passes' = passes + 1
             /\ BuiltBy(currentContainer', nodes', passes')]_vars

\* C4 Unconditional rerender: with a render target active, a setter called
\* with the value its slot already holds runs exactly one more pass, and the
\* container is rebuilt from new nodes.
C4_UnconditionalRerender ==
    [][\A k \in 0..1, x \in SetterValues :
          (TargetActive /\ StoreGet(stateStore, k) = x /\ SetValue(k, x))
          => /\ passes' = passes + 1
             /\ BuiltBy(currentContainer', nodes', passes')
             /\ lastCall'.err = NoError => Content(currentContainer', nodes') # {}]_vars

\* Counter mounted by the first pass, then setCount(0) while count() is 0
C4_SameValueSet ==
    /\ currentRenderFunction = Func("Counter")
    /\ passes = 2
    /\ lastCall = CallRecord("setValue", Num(0), NoNode, 0)
    /\ StoreGet(stateStore, 0) = Num(0)
    /\ Content(currentContainer, nodes) # {}
    /\ BuiltBy(currentContainer, nodes, 2)

\* C5 Listener symmetry: after any rerender, every listener attached to a node
\* of the document is on a node the latest pass created in the active container.
C5_ListenerSymmetry ==
    (lastCall.op = "rerender" /\ lastCall.err = NoError)
    => \A n \in DOMAIN nodes :
          nodes[n].listeners # <<>>
          => n \in Content(currentContainer, nodes) /\ n[1] = passes

\* C6 useState initialises a slot once: at a position that a useState call has
\* initialised before, whatever value x the slot holds when a later pass reaches
\* the position, the getter of the pair useState returns yields x, not the
\* initialValue passed again.
C6_InitialisedOnce ==
    \A k \in handles, x \in SetterValues, initialValue \in SetterValues :
        getValue(k, useState(initialValue,
                        [World EXCEPT !.stateStore = StoreSet(@, k, x),
                                      !.currentStateIndex = k]).w) = x

\* the slots the listeners of the nodes of tag `tag` below container c are bound to
BoundSlots(c, tag) ==
    {nodes[n].listeners[1][2].slot :
        n \in {m \in Content(c, nodes) : nodes[m].tag = tag /\ nodes[m].listeners # <<>>}}

\* ItemList (two invocations of Item in one pass) is mounted and its latest
\* pass has completed: the list is in the container
ItemListShown ==
    /\ currentRenderFunction = Func("ItemList")
    /\ TargetActive
    /\ \E n \in Content(currentContainer, nodes) : nodes[n].tag = "ul"

\* C7 as the code has it: the invocations of one component function within a
\* pass are bound to the slots at their own call-order positions, one slot per
\* useState call, and a value set through the setter of one invocation leaves
\* the value of the other invocation's getter as it was.
C7_SlotPerInvocation ==
    /\ [](ItemListShown => BoundSlots(currentContainer, "li") = {0, 1})
    /\ [][\A k \in 0..1, x \in SetterValues :
             (currentRenderFunction = Func("ItemList") /\ TargetActive /\ SetValue(k, x))
             => StoreGet(stateStore', 1 - k) = StoreGet(stateStore, 1 - k)]_vars

\* a click on one item of the mounted ItemList: the two getters differ
C7_ItemsDiffer ==
    /\ ItemListShown
    /\ lastCall.op = "dispatch"
    /\ lastCall.arg.fn = "increment"
    /\ StoreGet(stateStore, 0) # StoreGet(stateStore, 1)
    /\ BoundSlots(currentContainer, "li") = {0, 1}

\* C7 as stated: the invocations share one slot, so after a click on one item
\* (its setter is called with getter() + 1) every invocation's getter yields
\* the same value.
C7_SharedSlot ==
    (ItemListShown /\ lastCall.op = "dispatch" /\ lastCall.arg.fn = "increment")
    => StoreGet(stateStore, 0) = StoreGet(stateStore, 1)

RECURSIVE TreeOf(_, _)
\* the real tree at node n of the document ns, without the nodes' identities
TreeOf(n, ns) ==
    [tag |-> ns[n].tag, data |-> ns[n].data, attrs |-> ns[n].attrs,
     listeners |-> ns[n].listeners,
     children |-> [i \in 1..Len(ns[n].children) |-> TreeOf(ns[n].children[i], ns)]]

\* the entries of a virtual node's props that are handlers / attributes
IsHandlerEntry(e) == StartsWithOn(e[1]) /\ TypeOf(e[2]) = "function"
IsAttributeEntry(e) == ~IsHandlerEntry(e)
HandlerOf(e) == <<Slice2(ToLowerCase(e[1])), e[2]>>
AttributeOf(e) == <<ToLowerCase(e[1]), JSString(e[2])>>
SeqMap(Op(_), sq) == [i \in 1..Len(sq) |-> Op(sq[i])]

RECURSIVE TreeFor(_)
\* the real tree a virtual node describes: a text node for a string or a
\* number; else an element of the node's type with one attribute per
\* non-handler prop, one listener per handler prop and the trees of its
\* children, nested arrays flattened one level
TreeFor(vnode) ==
    IF vnode.t \in {"string", "number"}
    THEN [tag |-> TextTag, data |-> JSString(vnode), attrs |-> <<>>,
          listeners |-> <<>>, children |-> <<>>]
    ELSE [tag |-> vnode.type.s, data |-> "",
          attrs |-> SeqMap(AttributeOf, SelectSeq(vnode.props.entries, IsAttributeEntry)),
          listeners |-> SeqMap(HandlerOf, SelectSeq(vnode.props.entries, IsHandlerEntry)),
          children |-> SeqMap(TreeFor, Flat(vnode.children, 1))]

\* the render source resolved by a pass that starts in the current state with
\* the cursor at zero
ResolvedFromZero(renderFunction) ==
    Resolve(renderFunction, [World EXCEPT !.currentStateIndex = 0])

\* C8 mount contract: mount(renderSource, container) records the pair as the
\* active target; when it returns nothing of the container's former content is
\* left, the container holds exactly the real tree of the resolved virtual
\* node, and the render source ran with the cursor reset to zero.
C8_MountContract ==
    [][\A f \in RenderSources, c \in Containers :
          Mount(f, c)
          => /\ currentRenderFunction' = f
             /\ currentContainer' = c
             /\ BuiltBy(c, nodes', passes')
             /\ lastCall'.err = NoError
                => /\ TreeOf(c, nodes').children = <<TreeFor(ResolvedFromZero(f).ret)>>
                   /\ currentStateIndex' = ResolvedFromZero(f).w.currentStateIndex]_vars

\* TodoApp mounted by the second pass into the container the first pass filled
C8_Remounted ==
    /\ lastCall.op = "mount"
    /\ lastCall.err = NoError
    /\ passes = 2
    /\ currentRenderFunction = Func("TodoApp")
    /\ currentStateIndex = 2
    /\ Content(currentContainer, nodes) # {}
    /\ \A c \in Containers \ {currentContainer} : Content(c, nodes) = {}

\* C9 rerender without a target: before any mount, rerender() called directly,
\* through a setter, through navigate or through a history event invokes no
\* component function and leaves the document, the listener registry and the
\* state cursor as they were.
C9_NoTargetNoOp ==
    [][(/\ ~TargetActive
        /\ \/ Rerender
           \/ \E x \in RouterSetterValues : SetValue(0, x)
           \/ \E path \in NavigatePaths : Navigate(path)
           \/ \E delta \in {-1, 1} : PopState(delta))
       => /\ passes' = passes
          /\ nodes' = nodes
          /\ activeEventListeners' = activeEventListeners
          /\ currentStateIndex' = currentStateIndex]_vars

\* before any mount: the module-level setter has stored undefined, navigate has
\* pushed an entry and the user has gone back
C9_BeforeMount ==
    /\ ~TargetActive
    /\ lastCall.op = "popstate"
    /\ Len(history) = 2
    /\ globalCount = 0
    /\ stateStore = <<Undefined>>
    /\ currentStateIndex = 1
    /\ passes = 0

\* what a call leaves of the world: the document, the registry, the cursor
\* and the store
Effect(w) ==
    [nodes |-> w.nodes, activeEventListeners |-> w.activeEventListeners,
     currentStateIndex |-> w.currentStateIndex, stateStore |-> w.stateStore,
     err |-> w.err]

\* C10 Full reconstruction: with an active target, rerender() does what
\* mount(activeSource, activeContainer) does to the container, the registry,
\* the cursor and the store, and after the pass no node of a previous pass is
\* below the container.
C10_FullReconstruction ==
    /\ [](TargetActive
          => Effect(rerender(World))
             = Effect(mount(currentRenderFunction, currentContainer, World)))
    /\ [][(TargetActive /\ Rerender)
          => BuiltBy(currentContainer', nodes', passes')]_vars

\* a rerender() of a mounted target has rebuilt the container
C10_Rebuilt ==
    /\ TargetActive
    /\ lastCall.op = "rerender"
    /\ lastCall.err = NoError
    /\ passes >= 2
    /\ Content(currentContainer, nodes) # {}
    /\ BuiltBy(currentContainer, nodes, passes)

\* the world a render pass that has just ended started its source in
PassStart(w) == [w EXCEPT !.currentStateIndex = 0, !.passes = @ - 1]
\* the part of the document below container c
Below(c, ns) == [n \in Descendants(c, ns) |-> ns[n]]

\* C11 Single active target: mount makes its pair the one active target; every
\* later call that is not a mount (rerender, a setter, a listener, navigate, a
\* history event) keeps the target, runs at most one pass, leaves every other
\* container as it was, and a pass that completes leaves in the active
\* container the tree of the active render source.
C11_SingleTarget ==
    [][/\ \A f \in RetargetSources, c \in Containers :
             Mount(f, c) => currentRenderFunction' = f /\ currentContainer' = c
       /\ lastCall'.op # "mount"
          => /\ currentRenderFunction' = currentRenderFunction
             /\ currentContainer' = currentContainer
             /\ passes' <= passes + 1
             /\ \A c \in Containers \ {currentContainer} :
                   Below(c, nodes') = Below(c, nodes)
             /\ (passes' = passes + 1 /\ lastCall'.err = NoError)
                => TreeOf(currentContainer, nodes').children
                   = <<TreeFor(Resolve(currentRenderFunction, PassStart(World')).ret)>>]_vars

\* the target was moved from the counter in one container to the routed
\* application in the other, and a history event has run a pass since
C11_Retargeted ==
    /\ currentRenderFunction = Func("App")
    /\ lastCall.op = "popstate"
    /\ lastCall.err = NoError
    /\ passes = 3
    /\ \E c \in Containers \ {currentContainer} :
          /\ CounterText(0) \in Texts(c, nodes)
          /\ BuiltBy(c, nodes, 1)
    /\ BuiltBy(currentContainer, nodes, 3)

\* a prop entry as the application wrote it: the name and the value's string form
WrittenAttribute(e) == <<e[1], JSString(e[2])>>

RECURSIVE WrittenTree(_)
\* the structure of a handler-free virtual-node tree: tag names, attribute
\* names and values, text content and children, nested arrays flattened one level
WrittenTree(vnode) ==
    IF vnode.t \in {"string", "number"}
    THEN [tag |-> TextTag, data |-> JSString(vnode), attrs |-> <<>>,
          listeners |-> <<>>, children |-> <<>>]
    ELSE [tag |-> vnode.type.s, data |-> "",
          attrs |-> SeqMap(WrittenAttribute, vnode.props.entries),
          listeners |-> <<>>,
          children |-> SeqMap(WrittenTree, Flat(vnode.children, 1))]

\* C12 Round-trip render: a handler-free tree rendered into the empty container
\* reads back with the tag names, attribute names and values and text content
\* of the source tree, in order, and render returns the root node it appended.
C12_RoundTrip ==
    (lastCall.op = "render" /\ lastCall.arg \in HandlerFreeTrees)
    => /\ lastCall.err = NoError
       /\ nodes[Container1].children = <<lastCall.node>>
       /\ TreeOf(lastCall.node, nodes) = WrittenTree(lastCall.arg)

\* a non-empty string or a callable
ValidType(type) == (type.t = "string" /\ type.s # "") \/ type.t = "function"
\* an object-like value (a plain object or an array), or absent, or null
ValidProps(props) == props.t \in {"object", "array", "undefined", "null"}

\* C13 Construction: with valid arguments, h returns the virtual node of the
\* given type whose props are the given props (an empty mapping if absent or
\* null) and whose children are the arguments verbatim, arrays as single
\* entries; the call changes no state.
C13_Construction ==
    [][\A type \in TypeArguments, props \in PropsArguments, children \in ChildrenArguments :
          (H(type, props, children) /\ ValidType(type) /\ ValidProps(props))
          => /\ lastCall'.arg.ret =
                   [t |-> "vnode", type |-> type,
                    props |-> (IF props.t \in {"undefined", "null"} THEN Obj(<<>>) ELSE props),
                    children |-> children]
             /\ lastCall'.err = NoError
             /\ World' = World]_vars

\* h('div', null, [ 'a', [1] ], null, false) has returned: null props, an
\* array child kept as one entry
C13_NullPropsArrayChild ==
    /\ lastCall.op = "h"
    /\ lastCall.arg.type = Str("div")
    /\ lastCall.arg.props = Null
    /\ Len(lastCall.arg.children) = 3
    /\ lastCall.arg.ret.t = "vnode"
    /\ lastCall.arg.ret.props = Obj(<<>>)
    /\ lastCall.arg.ret.children[1].t = "array"

\* C14 Validation: h throws, and returns no virtual node, exactly when type is
\* neither a non-empty string nor a callable or props is neither object-like
\* nor absent nor null.
C14_Validation ==
    lastCall.op = "h"
    => /\ (lastCall.err # NoError) <=> ~(ValidType(lastCall.arg.type) /\ ValidProps(lastCall.arg.props))
       /\ (lastCall.err # NoError) <=> lastCall.arg.ret.t # "vnode"

\* h(0, ...) and h('div', 'main', ...) have thrown
C14_RejectedType ==
    /\ lastCall.op = "h"
    /\ lastCall.arg.type = Num(0)
    /\ ValidProps(lastCall.arg.props)
    /\ lastCall.err = "h(): type must be a non-empty string or function"
    /\ lastCall.arg.ret.t = "throw"

\* the paths the routed example navigates to
RoutedPaths == {"/", "/about", "/contact"}
\* a call navigate(p): by the application, or by a button of the navigation bar
NavigateCall(p) ==
    \/ lastCall'.op = "navigate" /\ Navigate(Str(p))
    \/ /\ lastCall'.op = "dispatch"
       /\ lastCall'.arg.fn \in NavigateHandlers
       /\ HandlerPath(lastCall'.arg.fn) = p
       /\ Dispatch(lastCall'.node, 1)
\* the part of the mounted App's tree that Router() supplied: the third child
\* of the root
RoutedTree(c, ns) == TreeOf(c, ns).children[1].children[3]

\* C15 Route scenario: with App mounted, navigate(p) for a registered path p
\* sets the current route to p, pushes p onto the host history, keeps the state
\* of the page and runs one pass: on return the container holds the rendering
\* of App, in which Router() supplied the output of the component registered
\* for p, and getCurrentRoute() returns p.
C15_RouteScenario ==
    [][\A p \in RoutedPaths :
          (TargetActive /\ p \in DOMAIN routes /\ NavigateCall(p))
          => /\ lastCall'.err = NoError
             /\ getCurrentRoute(World') = p
             /\ history' = Append(SubSeq(history, 1, historyIndex), p)
             /\ historyIndex' = historyIndex + 1
             /\ stateStore' = stateStore
             /\ passes' = passes + 1
             /\ TreeOf(currentContainer, nodes').children
                   = <<TreeFor(Resolve(currentRenderFunction, PassStart(World')).ret)>>
             /\ RoutedTree(currentContainer, nodes')
                   = TreeFor(RouteCall(routes[p], World').ret)]_vars

\* the scenario: the page loaded at "/", both routes registered, App mounted,
\* then navigate('/about') from the navigation bar: the About page is shown
C15_AboutShown ==
    /\ TargetActive
    /\ lastCall.op = "dispatch"
    /\ lastCall.arg.fn = "navigateAbout"
    /\ lastCall.err = NoError
    /\ {"/", "/about"} \subseteq DOMAIN routes
    /\ history = <<"/", "/about">>
    /\ currentRoute = "/about"
    /\ RoutedTree(currentContainer, nodes) = TreeFor(AboutPage(World).ret)
    /\ passes = 2

ValidPath(path) == path.t = "string" /\ path.s # "" /\ Chars(path.s)[1] = "/"

\* C17 navigate validation: navigate(path) throws when path is not a non-empty
\* string starting with "/", and then the current route, the host history, the
\* document and the registry are as before and no pass has run; it does not
\* throw for a path that is one.
C17_NavigateValidation ==
    [][\A path \in NavigatePaths :
          (lastCall'.op = "navigate" /\ lastCall'.arg = path /\ Navigate(path))
          => /\ ValidPath(path) => lastCall'.err = NoError
             /\ ~ValidPath(path)
                => /\ lastCall'.err # NoError
                   /\ currentRoute' = currentRoute
                   /\ history' = history
                   /\ historyIndex' = historyIndex
                   /\ nodes' = nodes
                   /\ activeEventListeners' = activeEventListeners
                   /\ passes' = passes]_vars

\* navigate('about') has thrown while App is mounted
C17_Rejected ==
    /\ TargetActive
    /\ lastCall.op = "navigate"
    /\ lastCall.arg = Str("about")
    /\ lastCall.err = "navigate(): path must start with /"
    /\ passes = 1
    /\ Content(currentContainer, nodes) # {}

\* a non-empty string
ValidRoutePath(path) == path.t = "string" /\ path.s # ""
\* a callable or an object-like value
ValidComponent(component) == component.t \in {"function", "vnode", "object", "array"}

\* C18 addRoute validation: addRoute(path, component) throws when path is not
\* a non-empty string or component is neither callable nor object-like, and the
\* route table is then as before; otherwise it returns and the table maps
\* exactly the key path to component, every other key as before.
C18_AddRouteValidation ==
    [][\A path \in RoutePathArguments, component \in ComponentArguments :
          (lastCall'.arg = path /\ AddRoute(path, component))
          => IF ValidRoutePath(path) /\ ValidComponent(component)
             THEN /\ lastCall'.err = NoError
                  /\ DOMAIN routes' = DOMAIN routes \cup {path.s}
                  /\ routes'[path.s] = component
                  /\ \A q \in DOMAIN routes \ {path.s} : routes'[q] = routes[q]
             ELSE /\ lastCall'.err # NoError
                  /\ routes' = routes]_vars

\* addRoute('/about', <no component>) has thrown and the two registered routes
\* are in the table
C18_RejectedComponent ==
    /\ lastCall.op = "addRoute"
    /\ lastCall.arg = Str("/about")
    /\ lastCall.err = "addRoute(): component must be a function or object"
    /\ DOMAIN routes = {"/", "/about"}
    /\ routes["/about"] = NotFound

\* C19 History navigation: at initialisation the current route is the path of
\* the document's address; every popstate event sets the current route to the
\* document's path and then runs one pass, which does nothing when nothing is
\* mounted: after the event getCurrentRoute() returns the document's path and
\* a mounted App shows what Router() supplies for that path.
C19_HistoryNavigation ==
    /\ [](lastCall.op = "load" => getCurrentRoute(World) = Pathname(World))
    /\ [][\A d \in {-1, 1} :
            (lastCall'.op = "popstate" /\ lastCall'.arg = Num(d) /\ PopState(d))
            => /\ history' = history
               /\ historyIndex' = historyIndex + d
               /\ getCurrentRoute(World') = Pathname(World')
               /\ stateStore' = stateStore
               /\ TargetActive
                  => /\ lastCall'.err = NoError
                     /\ passes' = passes + 1
                     /\ TreeOf(currentContainer, nodes').children
                           = <<TreeFor(Resolve(currentRenderFunction, PassStart(World')).ret)>>
                     /\ RoutedTree(currentContainer, nodes')
                           = TreeFor(Router(World').ret)
               /\ ~TargetActive
                  => /\ passes' = passes
                     /\ nodes' = nodes
                     /\ activeEventListeners' = activeEventListeners]_vars

\* the page loaded at "/about" with App mounted and both routes registered,
\* navigate('/') and then back: the About page is shown again
C19_BackToAbout ==
    /\ TargetActive
    /\ lastCall.op = "popstate"
    /\ lastCall.arg = Num(-1)
    /\ lastCall.err = NoError
    /\ {"/", "/about"} \subseteq DOMAIN routes
    /\ history = <<"/about", "/">>
    /\ historyIndex = 1
    /\ currentRoute = "/about"
    /\ RoutedTree(currentContainer, nodes) = TreeFor(AboutPage(World).ret)
    /\ passes = 3

\* C20 Conditional rendering: rendering the tree of the documented pattern
\* cond && h(...) completes without error whether cond is true or false, and
\* the child false contributes no content: the rendered div holds the
\* paragraph when cond is true and nothing when it is false.
C20_ConditionalRendering ==
    (lastCall.op = "render" /\ lastCall.arg \in ConditionalTrees)
    => /\ lastCall.err = NoError
       /\ nodes[Container1].children = <<lastCall.node>>
       /\ Texts(Container1, nodes)
             = IF lastCall.arg = ConditionalContent(Bool(TRUE))
               THEN {"This content is visible"} ELSE {}

\* the key starts with the two letters "on" in lower case / in any letter case
LowerCaseOn(key) == Len(key) >= 2 /\ SubSeq(key, 1, 2) = <<"o", "n">>
AnyCaseOn(key) == Len(key) >= 2 /\ ToLowerCase(SubSeq(key, 1, 2)) = <<"o", "n">>
\* the registration of a handler entry
RegistrationOf(e) == [eventName |-> Slice2(ToLowerCase(e[1])), handler |-> e[2]]
\* the element rendered for a tree of PropTrees treats exactly the entries
\* whose key satisfies Convention and whose value is callable as handlers
\* (attached for the key without its prefix, lower-cased, and registered) and
\* every other entry as an attribute set through the host's setAttribute
\* (named by the key, valued by the value's string form), each entry once
PropsRenderedAs(Convention(_)) ==
    (lastCall.op = "render" /\ lastCall.arg \in PropTrees)
    => LET entries == lastCall.arg.props.entries
           el == lastCall.node
           handlers == SelectSeq(entries,
                           LAMBDA e : Convention(e[1]) /\ TypeOf(e[2]) = "function")
           attributes == SelectSeq(entries,
                           LAMBDA e : ~(Convention(e[1]) /\ TypeOf(e[2]) = "function"))
       IN /\ lastCall.err = NoError
          /\ nodes[el].listeners = SeqMap(HandlerOf, handlers)
          /\ nodes[el].attrs = SeqMap(AttributeOf, attributes)
          /\ IF handlers = <<>> THEN el \notin DOMAIN activeEventListeners
             ELSE /\ el \in DOMAIN activeEventListeners
                  /\ activeEventListeners[el] = SeqMap(RegistrationOf, handlers)
          /\ Len(nodes[el].listeners) + Len(nodes[el].attrs) = Len(entries)

\* C21 Props of a virtual node: for every key of the props, render does
\* exactly one of two things: a key that starts with "on" in lower case and
\* has a callable value is attached as a listener for the rest of the key,
\* lower-cased, and recorded in the registry; every other key is set as an
\* attribute with the value's string form. No key gives both, none is skipped.
C21_PropsLowerCasePrefix == PropsRenderedAs(LowerCaseOn)

\* C21 as stated: the prefix "on" is matched in any letter case
C21_PropsAnyCasePrefix == PropsRenderedAs(AnyCaseOn)

\* h('button', { OnInput: handleClick, onClick: handleClick }) rendered: one
\* listener, for click, and one attribute, for the capitalised key
C21_MixedProps ==
    /\ lastCall.op = "render"
    /\ lastCall.arg = El("button", << <<K_OnInput, Func("handleClick")>>,
                                      <<K_onClick, Func("handleClick")>> >>, <<>>)
    /\ lastCall.err = NoError
    /\ nodes[lastCall.node].listeners = << <<Slice2(ToLowerCase(K_onClick)), Func("handleClick")>> >>
    /\ Len(nodes[lastCall.node].attrs) = 1
    /\ Len(activeEventListeners[lastCall.node]) = 1

RECURSIVE Leaves(_, _)
\* the entries of a children list that are no arrays, in order, at any depth
Leaves(children, i) ==
    IF i > Len(children) THEN <<>>
    ELSE (IF children[i].t = "array" THEN Leaves(children[i].items, 1)
          ELSE <<children[i]>>)
         \o Leaves(children, i + 1)
\* an array among the children holds an array
NestedTwice(children) ==
    \E i \in 1..Len(children) :
        /\ children[i].t = "array"
        /\ \E j \in 1..Len(children[i].items) : children[i].items[j].t = "array"

\* C22 Flattening: render flattens the children by exactly one level and
\* renders the entries in order. Children whose arrays hold no array give one
\* child node per entry, those of an array in the array's place, in order
\* (a, [b, c], d gives a, b, c, d). An array inside an array is not flattened:
\* it reaches render as one entry, which is no virtual node, so the call
\* throws and the element with the deeper entries as children never appears.
C22_FlattenOneLevel ==
    (lastCall.op = "render" /\ lastCall.arg \in NestedTrees)
    => IF NestedTwice(lastCall.arg.children)
       THEN /\ lastCall.err = "TypeError"
            /\ nodes[Container1].children = <<>>
       ELSE /\ lastCall.err = NoError
            /\ nodes[Container1].children = <<lastCall.node>>
            /\ TreeOf(lastCall.node, nodes).children
                  = SeqMap(TreeFor, Leaves(lastCall.arg.children, 1))

\* h('div', {}, 'a', ['b', 'c'], 'd') rendered: four text nodes a, b, c, d
C22_FourChildren ==
    /\ lastCall.op = "render"
    /\ lastCall.arg = El("div", <<>>, <<Str("a"), Arr(<<Str("b"), Str("c")>>), Str("d")>>)
    /\ lastCall.err = NoError
    /\ [i \in 1..4 |-> nodes[nodes[lastCall.node].children[i]].data] = <<"a", "b", "c", "d">>

\* a pass: a call of mount, or a call of rerender with an active target
PassStep ==
    \/ lastCall'.op = "mount" /\ Mount(lastCall'.arg, lastCall'.node)
    \/ lastCall'.op = "rerender" /\ TargetActive /\ Rerender

\* C23 Order of a pass: mount and rerender clean up the listeners of the
\* container's subtree, then clear the container, then reset the cursor, then
\* resolve the render source, then render. So after every pass no node that
\* was in the container has a registry entry (the cleanup saw the subtree
\* before it was detached) or is left in the document; the cursor is where
\* the source's useState calls took it from zero; the source was resolved
\* once; a pass that returns leaves the tree of the resolved node in the
\* container, and a pass whose source throws leaves the container empty.
C23_PassOrder ==
    [][PassStep
       => /\ Content(currentContainer', nodes) \cap DOMAIN activeEventListeners' = {}
          /\ Content(currentContainer', nodes) \cap DOMAIN nodes' = {}
          /\ currentStateIndex' = ResolvedFromZero(currentRenderFunction').w.currentStateIndex
          /\ passes' = passes + 1
          /\ lastCall'.err = NoError
             => TreeOf(currentContainer', nodes').children
                   = <<TreeFor(ResolvedFromZero(currentRenderFunction').ret)>>
          /\ ~Ok(ResolvedFromZero(currentRenderFunction').w)
             => /\ Content(currentContainer', nodes') = {}
                /\ lastCall'.err = ResolvedFromZero(currentRenderFunction').w.err]_vars

\* rerender of the mounted TodoApp: the registry holds the listeners of the
\* second pass only
C23_SecondPass ==
    /\ lastCall.op = "rerender"
    /\ lastCall.err = NoError
    /\ passes = 2
    /\ currentRenderFunction = Func("TodoApp")
    /\ currentStateIndex = 2
    /\ DOMAIN activeEventListeners # {}
    /\ \A n \in DOMAIN activeEventListeners : n[1] = 2

\* what cleanupEventListeners(n) has done when it left the world `cleaned`:
\* no node of the subtree of n has a registry entry, no pair that was
\* recorded for a node of the subtree is attached to it, the subtree is
\* otherwise as it was, and so is everything outside the subtree
CleanedUp(n, cleaned) ==
    /\ Descendants(n, nodes) \cap DOMAIN cleaned.activeEventListeners = {}
    /\ \A m \in Descendants(n, nodes) \cap DOMAIN activeEventListeners :
          \A i \in 1..Len(activeEventListeners[m]) :
              \A j \in 1..Len(cleaned.nodes[m].listeners) :
                  cleaned.nodes[m].listeners[j]
                     # <<activeEventListeners[m][i].eventName, activeEventListeners[m][i].handler>>
    /\ \A m \in Descendants(n, nodes) :
          cleaned.nodes[m] = [nodes[m] EXCEPT !.listeners = cleaned.nodes[m].listeners]
    /\ \A m \in DOMAIN nodes \ Descendants(n, nodes) : cleaned.nodes[m] = nodes[m]
    /\ \A m \in DOMAIN activeEventListeners \ Descendants(n, nodes) :
          /\ m \in DOMAIN cleaned.activeEventListeners
          /\ cleaned.activeEventListeners[m] = activeEventListeners[m]
    /\ cleanupEventListeners(n, cleaned) = cleaned
    /\ Descendants(n, nodes) \cap DOMAIN activeEventListeners = {} => cleaned = World

\* C24 Cleanup: cleanupEventListeners(node), called in any reachable state on
\* any node of the document, detaches every recorded pair of the node and of
\* every element of its subtree and removes their registration lists, leaves
\* the rest of the document and of the registry alone, and changes nothing
\* when called again or on a subtree without registrations; the cleanup of a
\* pass removes exactly the entries of the container's subtree.
C24_Cleanup ==
    /\ [](\A n \in DOMAIN nodes : CleanedUp(n, cleanupEventListeners(n, World)))
    /\ [][PassStep
          => \A m \in DOMAIN activeEventListeners :
                IF m \in Descendants(currentContainer', nodes)
                THEN m \notin DOMAIN activeEventListeners'
                ELSE /\ m \in DOMAIN activeEventListeners'
                     /\ activeEventListeners'[m] = activeEventListeners[m]]_vars

\* a second mount into the container the first pass filled: the registry
\* holds no entry of the first pass
C24_OldEntriesRemoved ==
    /\ lastCall.op = "mount"
    /\ lastCall.err = NoError
    /\ passes = 2
    /\ \A c \in Containers \ {currentContainer} : Content(c, nodes) = {}
    /\ DOMAIN activeEventListeners # {}
    /\ \A n \in DOMAIN activeEventListeners : n[1] = 2 /\ n \in Content(currentContainer, nodes)

\* the registrations of node n
RegistrationsOf(n) ==
    IF n \in DOMAIN activeEventListeners THEN activeEventListeners[n] ELSE <<>>

\* C25 Registry/attachment correspondence: for every node of the document,
\* each attached listener has exactly one registration in the node's list and
\* each registration of the list is an attached listener.
C25_Correspondence ==
    \A n \in DOMAIN nodes :
        /\ \A j \in 1..Len(nodes[n].listeners) :
              Cardinality({i \in 1..Len(RegistrationsOf(n)) :
                             <<RegistrationsOf(n)[i].eventName, RegistrationsOf(n)[i].handler>>
                                = nodes[n].listeners[j]}) = 1
        /\ \A i \in 1..Len(RegistrationsOf(n)) :
              \E j \in 1..Len(nodes[n].listeners) :
                  nodes[n].listeners[j]
                     = <<RegistrationsOf(n)[i].eventName, RegistrationsOf(n)[i].handler>>

\* how many useState calls one run of the render source makes: one in
\* Counter, two in TodoApp, one in each of the two invocations of Item
UseStateCalls(renderFunction) ==
    IF TypeOf(renderFunction) # "function" THEN 0
    ELSE CASE renderFunction.fn = "Counter" -> 1
           [] renderFunction.fn = "TodoApp" -> 2
           [] renderFunction.fn = "ItemList" -> 2
\* the slots the listeners below container c are bound to (a listener that
\* closes over no getter/setter pair is bound to none)
AllBoundSlots(c) ==
    UNION {{nodes[n].listeners[i][2].slot : i \in 1..Len(nodes[n].listeners)} :
              n \in Content(c, nodes)} \ {NoSlot}
\* three useState calls in a row from the start of a pass: the slots they
\* bind and the cursor they leave
ThreeCalls(u1, u2, u3) ==
    /\ <<u1.ret, u2.ret, u3.ret>> = <<0, 1, 2>>
    /\ u3.w.currentStateIndex = 3
ThreeCallsFrom(u1) ==
    ThreeCalls(u1, useState(Str(""), u1.w), useState(Num(0), useState(Str(""), u1.w).w))

\* C26 Call-order slots: within one pass the k-th useState call is bound to
\* slot k - 1 of the one store, whichever function makes the call; no two
\* calls of a pass are bound to the same slot; when a pass ends the cursor
\* equals the number of useState calls made in it.
C26_CallOrderSlots ==
    /\ [](ThreeCallsFrom(useState(Arr(<<>>), PassStart(World))))
    /\ [](\A c \in Containers :
             (c = currentContainer /\ Content(c, nodes) # {} /\ TargetActive)
             => /\ AllBoundSlots(c) \subseteq 0..(UseStateCalls(currentRenderFunction) - 1)
                /\ currentRenderFunction = Func("Counter") => AllBoundSlots(c) = {0}
                /\ currentRenderFunction = Func("ItemList") => AllBoundSlots(c) = {0, 1}
                /\ currentRenderFunction = Func("TodoApp") => 1 \in AllBoundSlots(c))
    /\ [][passes' # passes
          => currentStateIndex' = UseStateCalls(currentRenderFunction')]_vars

\* the mounted TodoApp after a pass a setter started: the cursor is at two
\* and its listeners are bound to the second slot
C26_TwoCalls ==
    /\ lastCall.op = "setValue"
    /\ lastCall.err = NoError
    /\ currentRenderFunction = Func("TodoApp")
    /\ passes = 2
    /\ currentStateIndex = 2
    /\ Len(stateStore) = 2
    /\ AllBoundSlots(currentContainer) = {1}

\* the call recorded by the step is a call of a setter bound to slot k: by
\* the application, or by a listener that closes over the pair of slot k
SetterCalledOn(k) ==
    \/ lastCall'.op = "setValue" /\ lastCall'.slot = k
    \/ /\ lastCall'.op = "dispatch"
       /\ \/ lastCall'.arg.fn \in SetterHandlers /\ lastCall'.arg.slot = k
          \/ lastCall'.arg.fn = "addTodo" /\ k \in {lastCall'.arg.slot - 1, lastCall'.arg.slot}

\* C27 Slots change through their setter only: no step removes a slot, and
\* the value stored in a slot is changed only by a step that calls a setter
\* bound to that slot; mount, rerender and the listeners that call no setter
\* leave every stored value as it was.
C27_SetterOnly ==
    [][/\ Len(stateStore') >= Len(stateStore)
       /\ \A k \in 0..(Len(stateStore) - 1) :
             StoreGet(stateStore', k) # StoreGet(stateStore, k) => SetterCalledOn(k)]_vars

\* how many setter calls the handler fn makes when it is called in the
\* current state: one in a handler that calls its setter, two in addTodo
\* when the input holds a text, none when the handler throws before the call
SetterCalls(fn) ==
    IF fn.fn \in SetterHandlers
    THEN (IF fn.fn = "toggleTodo" /\ getValue(fn.slot, World).t # "array" THEN 0 ELSE 1)
    ELSE IF fn.fn = "addTodo"
    THEN (IF \/ getValue(fn.slot, World).t # "string"
             \/ getValue(fn.slot, World) = Str("")
             \/ getValue(fn.slot - 1, World).t # "array"
          THEN 0 ELSE 2)
    ELSE 0

C29_Termination == (callStack # <<>>) ~> (callStack = <<>>)

\* mount(Settle) has returned after the two passes its setter calls nested in
\* the first
C29_Settled ==
    /\ callStack = <<>>
    /\ lastCall.op = "mount"
    /\ lastCall.err = NoError
    /\ currentRenderFunction = Func("Settle")
    /\ passes = SettleLimit + 1
    /\ stateStore = <<Num(SettleLimit)>>

\* what the source throws when a pass resolves it in world w, the cursor at zero
Thrown(renderFunction, w) ==
    Resolve(renderFunction, [w EXCEPT !.currentStateIndex = 0]).w.err
\* the source is a component function that throws in a pass started in world w
Aborts(renderFunction, w) ==
    /\ TypeOf(renderFunction) = "function"
    /\ Thrown(renderFunction, w) # NoError
\* the world a setter leaves to the rerender() it calls
Stored(stateIndex, newValue) ==
    [World EXCEPT !.stateStore = StoreSet(@, stateIndex, newValue)]
\* the step was a pass on container c that the source, resolved in world w,
\* aborted: the caller got what the source threw, the source ran once, the
\* container was cleared and nothing was rendered into it
PassAborted(renderFunction, c, w) ==
    /\ lastCall'.err = Thrown(renderFunction, w)
    /\ passes' = passes + 1
    /\ Content(c, nodes') = {}
    /\ Descendants(c, nodes') \cap DOMAIN activeEventListeners' = {}
\* the step was a pass of the active target whose source, resolved in world
\* w, returned: the source ran once, and unless rendering threw the container
\* holds the tree of the node the source returned, built by this pass
PassCompleted(w) ==
    /\ passes' = passes + 1
    /\ lastCall'.err = NoError
       => /\ Content(currentContainer, nodes') # {}
          /\ BuiltBy(currentContainer, nodes', passes')
          /\ TreeOf(currentContainer, nodes').children
                = <<TreeFor(Resolve(currentRenderFunction,
                                    [w EXCEPT !.currentStateIndex = 0]).ret)>>

\* C30 Exceptions of components: when the component function of a pass throws,
\* the pass ends there, with the container cleared and nothing rendered, and
\* the caller of mount, of rerender, of the setter or of navigate gets what
\* the component threw; the source is run once, not again; a pass that is
\* started after an aborted one and whose source returns is a complete pass.
C30_ComponentThrows ==
    [][/\ (lastCall'.op = "mount" /\ Mount(lastCall'.arg, lastCall'.node)
             /\ Aborts(lastCall'.arg, World))
          => PassAborted(lastCall'.arg, lastCall'.node, World)
       /\ (lastCall'.op = "rerender" /\ TargetActive /\ Rerender
             /\ Aborts(currentRenderFunction, World))
          => PassAborted(currentRenderFunction, currentContainer, World)
       /\ (lastCall'.op = "setValue" /\ TargetActive
             /\ SetValue(lastCall'.slot, lastCall'.arg)
             /\ Aborts(currentRenderFunction, Stored(lastCall'.slot, lastCall'.arg)))
          => PassAborted(currentRenderFunction, currentContainer,
                         Stored(lastCall'.slot, lastCall'.arg))
       /\ (TargetActive /\ Aborts(currentRenderFunction, World))
          => /\ navigate(Str("/about"), World).err = Thrown(currentRenderFunction, World)
             /\ navigate(Str("/about"), World).passes = passes + 1
       /\ (lastCall.err # NoError /\ lastCall'.op = "rerender" /\ TargetActive
             /\ Rerender /\ ~Aborts(currentRenderFunction, World))
          => PassCompleted(World)
       /\ (lastCall.err # NoError /\ lastCall'.op = "setValue" /\ TargetActive
             /\ SetValue(lastCall'.slot, lastCall'.arg)
             /\ ~Aborts(currentRenderFunction, Stored(lastCall'.slot, lastCall'.arg)))
          => PassCompleted(Stored(lastCall'.slot, lastCall'.arg))]_vars

\* the setter of the mounted TodoApp's list was called with a value that is
\* no array: the pass it started was aborted by the component's TypeError
C30_AbortedPass ==
    /\ lastCall.op = "setValue"
    /\ lastCall.slot = 0
    /\ lastCall.err = "TypeError"
    /\ currentRenderFunction = Func("TodoApp")
    /\ passes = 2
    /\ Content(currentContainer, nodes) = {}

\* C31 Frame of render: render(vnode, container) leaves the active target, the
\* cursor, the state store, the route table, the current route and the
\* history as they were; every node that was in the document stays as it was,
\* but for the container's list of children, at whose end the one new root is
\* put; the nodes of the new tree are nodes the document did not hold; the
\* tree is the one of the virtual node, whatever was rendered from it before;
\* a call that throws leaves the document as it was.
C31_RenderFrame ==
    [][\A c \in Containers :
          (lastCall'.op = "render" /\ ChildrenHeld < MaxChildren
             /\ Render(lastCall'.arg, c))
          => /\ currentRenderFunction' = currentRenderFunction
             /\ currentContainer' = currentContainer
             /\ currentStateIndex' = currentStateIndex
             /\ stateStore' = stateStore
             /\ routes' = routes
             /\ currentRoute' = currentRoute
             /\ history' = history
             /\ passes' = passes
             /\ \A n \in DOMAIN nodes \ {c} : n \in DOMAIN nodes' /\ nodes'[n] = nodes[n]
             /\ \A n \in DOMAIN activeEventListeners :
                   /\ n \in DOMAIN activeEventListeners'
                   /\ activeEventListeners'[n] = activeEventListeners[n]
             /\ IF lastCall'.err = NoError
                THEN /\ lastCall'.node \notin DOMAIN nodes
                     /\ nodes'[c] = [nodes[c] EXCEPT !.children = Append(@, lastCall'.node)]
                     /\ Descendants(lastCall'.node, nodes') = DOMAIN nodes' \ DOMAIN nodes
                     /\ TreeOf(lastCall'.node, nodes') = TreeFor(lastCall'.arg)
                ELSE /\ nodes' = nodes
                     /\ activeEventListeners' = activeEventListeners]_vars

\* the same button rendered twice into the second container while the Counter
\* is mounted in the first: two equal trees of different nodes, one after the
\* other, each with its registration
C31_RenderedTwice ==
    /\ lastCall.op = "render"
    /\ lastCall.err = NoError
    /\ currentRenderFunction = Func("Counter")
    /\ stateStore = <<Num(0)>>
    /\ Len(nodes[Container2].children) = 2
    /\ nodes[Container2].children[2] = lastCall.node
    /\ nodes[Container2].children[1] # lastCall.node
    /\ TreeOf(nodes[Container2].children[1], nodes) = TreeOf(lastCall.node, nodes)
    /\ nodes[lastCall.node].tag = "button"
    /\ {nodes[Container2].children[1], lastCall.node} \subseteq DOMAIN activeEventListeners

\* C32 One pass in the container: when a call of mount, rerender, a setter or
\* navigate has returned normally and a target is active, the container holds
\* one root, and the nodes below the container are those of one pass, the
\* last one; also when the source called a setter or navigate while a pass
\* ran.
C32_SinglePass ==
    (/\ callStack = <<>>
     /\ lastCall.op \in {"mount", "rerender", "setValue", "navigate"}
     /\ lastCall.err = NoError
     /\ TargetActive)
    => /\ Len(nodes[currentContainer].children) = 1
       /\ BuiltBy(currentContainer, nodes, passes)

\* C33 Module-level pair and component pairs: the pair a useState call made
\* outside every pass returned and the pairs of the useState calls of the
\* mounted render function are bound to different slots, so that the setter
\* of the one does not change what a getter of the other returns.
C33_SeparateSlots ==
    (globalCount # NoSlot /\ TargetActive /\ lastCall.err = NoError)
    => \A k \in AllBoundSlots(currentContainer) :
          /\ k # globalCount
          /\ \A x \in SetterValues :
                StoreGet(StoreSet(stateStore, globalCount, x), k) = StoreGet(stateStore, k)

\* C34 Pairs stay bound: a pair that the k-th useState call of some pass
\* returned is never unbound; when its setter is called, in whatever later
\* state, the value goes to slot k - 1 and to no other slot, its getter reads
\* that slot as it is now, and the k-th useState call of a later pass returns
\* a pair on the same slot, whose getter reads the same value. (A stored
\* undefined is replaced by the initial value of the next useState call at
\* the slot; both getters then read that value.)
C34_PairsStayBound ==
    [][/\ handles \subseteq handles'
       /\ (lastCall'.op = "setValue" /\ SetValue(lastCall'.slot, lastCall'.arg))
          => /\ lastCall'.arg # Undefined => getValue(lastCall'.slot, World') = lastCall'.arg
             /\ \A j \in 0..(Len(stateStore) - 1) \ {lastCall'.slot} :
                   StoreGet(stateStore, j) # Undefined
                   => getValue(j, World') = StoreGet(stateStore, j)
             /\ useState(Num(0), [World' EXCEPT !.currentStateIndex = lastCall'.slot]).ret
                   = lastCall'.slot
             /\ getValue(lastCall'.slot, World') # Undefined
                => getValue(lastCall'.slot,
                            useState(Num(0), [World' EXCEPT !.currentStateIndex
                                                               = lastCall'.slot]).w)
                      = getValue(lastCall'.slot, World')]_vars

\* the Counter was mounted and rendered again; then the setter of the pair of
\* the first pass was called with null: the third pass shows the new value
C34_EarlierSetter ==
    /\ lastCall.op = "setValue"
    /\ lastCall.slot = 0
    /\ lastCall.arg = Null
    /\ lastCall.err = NoError
    /\ currentRenderFunction = Func("Counter")
    /\ passes = 3
    /\ stateStore = <<Null>>
    /\ AllBoundSlots(currentContainer) = {0}

\* C35 A pass that throws: when mount or rerender has ended with an
\* exception, thrown by the component function or by render at whatever depth
\* of the tree, the container of the pass has no children, neither the former
\* content nor a node of the failed pass, and the target is the recorded one.
C35_FailedPass ==
    (/\ callStack = <<>>
     /\ lastCall.op \in {"mount", "rerender"}
     /\ lastCall.err # NoError)
    => /\ TargetActive
       /\ nodes[currentContainer].children = <<>>
       /\ lastCall.op = "mount"
          => /\ currentRenderFunction = lastCall.arg
             /\ currentContainer = lastCall.node

\* C36 Shape of the current route: in every state getCurrentRoute() returns a
\* string that is not empty and starts with "/"; the address the page was
\* loaded at, navigate and the history events, which write it, keep it so.
C36_RouteShape ==
    /\ getCurrentRoute(World) # ""
    /\ StartsWithSlash(getCurrentRoute(World))
    /\ \A i \in 1..Len(history) : StartsWithSlash(history[i])

\* the page was loaded at /, navigate('/about') was called, and the user went
\* back and forward again
C36_ForwardAgain ==
    /\ lastCall.op = "popstate"
    /\ lastCall.arg = Num(1)
    /\ history = <<"/", "/about">>
    /\ historyIndex = 2
    /\ getCurrentRoute(World) = "/about"

\* C37 Frame of addRoute: a registration, the first for its path or one that
\* replaces the component of a path, the current one included, starts no
\* pass and leaves the current route, the document, the listener registry,
\* the target, the store and the history as they were; the table holds the
\* component registered last; the next pass shows it; and no step of the
\* program takes a path out of the table.
C37_AddRouteFrame ==
    [][/\ DOMAIN routes \subseteq DOMAIN routes'
       /\ \A component \in RegisteredPages :
             (lastCall'.op = "addRoute" /\ AddRoute(lastCall'.arg, component))
             => /\ passes' = passes
                /\ currentRoute' = currentRoute
                /\ nodes' = nodes
                /\ activeEventListeners' = activeEventListeners
                /\ currentRenderFunction' = currentRenderFunction
                /\ currentContainer' = currentContainer
                /\ stateStore' = stateStore
                /\ currentStateIndex' = currentStateIndex
                /\ history' = history
                /\ routes'[lastCall'.arg.s] = component
       /\ (lastCall'.op = "rerender" /\ TargetActive /\ Rerender
             /\ currentRoute \in DOMAIN routes)
          => RoutedTree(currentContainer, nodes')
                = TreeFor(RouteCall(routes[currentRoute], World).ret)]_vars

\* the About page is shown at /about and the path has just been registered
\* again, with the Contact page: the About page is still in the document
C37_StaleUntilNextPass ==
    /\ lastCall.op = "addRoute"
    /\ lastCall.arg = Str("/about")
    /\ lastCall.err = NoError
    /\ TargetActive
    /\ currentRoute = "/about"
    /\ routes["/about"] = Func("ContactPage")
    /\ RoutedTree(currentContainer, nodes) = TreeFor(AboutPage(World).ret)

====
